---- MODULE Spec2Model ----
(***************************************************************************)
(* Model of the tournament player agent (my_project).                      *)
(*                                                                         *)
(* Part 1: the Decision Engine, agents/player/strategy.py: construction of *)
(* StrategyEngine and the steps of one choose_parity call (the bounded     *)
(* wait on the reasoning service, its handlers, the random fallback).      *)
(*                                                                         *)
(* Part 2: the Protocol Message Builder, core/protocol.py.                 *)
(*                                                                         *)
(* Part 3: the Match State Tracker, agents/player/state.py.                *)
(*                                                                         *)
(* Part 4: the Timestamp Authority, utils/timestamp.py.                    *)
(*                                                                         *)
(* Part 5: the tool handlers, agents/player/handlers.py.                   *)
(*                                                                         *)
(* Part 6: the dispatch of /mcp, agents/player/server.py.                  *)
(*                                                                         *)
(* Part 7: handler coroutines in flight on one event loop.                 *)
(*                                                                         *)
(* Part 8: the calls for a match arriving in any order.                    *)
(*                                                                         *)
(* Each part has its own specification; the variables of the other parts   *)
(* keep their initial values in it.                                        *)
(***************************************************************************)
EXTENDS Integers, Sequences, FiniteSets, TLC

VARIABLES
    ctorArgs,     \* the arguments and environment of StrategyEngine(...), or NoArgs
    engine,       \* the constructed engine (mode, llm_timeout, agent) or the error raised
    phase,        \* position of the current choose_parity call
    ncalls,       \* choose_parity calls started on the engine
    ctx,          \* the context passed to the current call
    svc,          \* how the reasoning service behaves for the current call
    elapsed,      \* seconds waited in asyncio.wait_for in the current call
    invoked,      \* agent.arun invocations made by the current call
    suspended,    \* whether the current call has awaited (yielded to the event loop)
    waited,       \* what asyncio.wait_for(self._llm_choice(...)) produced
    answer,       \* the response object the service delivered to the current call
    ret,          \* what the current call returned (value, source) or raised
    returns,      \* the values returned to callers so far, one per finished call
    inflight,     \* results of abandoned reasoning calls, still to arrive
    delivered,    \* results that arrived after their call was abandoned
    builder,      \* ProtocolMessageBuilder: player_id, auth_token
    built,        \* what the last build_* call returned or raised
    lastSet,      \* the argument of the last ProtocolMessageBuilder.set_auth_token call
    bop,          \* the last operation called on the builder, with its arguments
    ps,           \* PlayerState: auth_token, registered, stats, match_history, max_history_entries
    applied,      \* every record update_from_result has appended, in order
    sop,          \* the last operation called on the PlayerState, with its argument
    snapshot,     \* the dict the last get_stats call handed to its caller
    snapShared,   \* whether that dict is the same object as PlayerState.stats
    qres,         \* what the last read-only query on the PlayerState returned or raised
    now,          \* the instant the system clock shows (seconds, microseconds)
    tsop,         \* the last call made on the timestamp utility, with its arguments
    tsres,        \* what that call returned or raised
    hop,          \* the last tool handler called, with its params and the engine's behaviour
    hres,         \* what that handler returned or raised
    request,      \* the JSON-RPC request last posted to /mcp
    response,     \* the response mcp_endpoint gave to it
    tasks,        \* the handler coroutines in flight: call, position, local values
    running,      \* the task the event loop is running, or NoTask between tasks
    order         \* the calls in the order in which they completed

engineVars == <<ctorArgs, engine, phase, ncalls, ctx, svc, elapsed, invoked,
                suspended, waited, answer, ret, returns, inflight, delivered>>

builderVars == <<builder, built, lastSet, bop>>

stateVars == <<ps, applied, sop, snapshot, snapShared, qres>>

clockVars == <<now, tsop, tsres>>

handlerVars == <<hop, hres>>

serverVars == <<request, response>>

taskVars == <<tasks, running, order>>

\* the variables of the parts added after the first three
serviceVars == <<clockVars, handlerVars, serverVars, taskVars>>

vars == <<engineVars, builderVars, stateVars, serviceVars>>

-----------------------------------------------------------------------------
(* Bounds of the model *)

MaxCalls == 2

\* the model's clock stops here (no constructed engine waits this long)
MaxClock == 32

-----------------------------------------------------------------------------
(* Values *)

\* the canonical set: random.choice(["even", "odd"]), `choice not in ["even", "odd"]`
Canon == {"even", "odd"}

\* strings a reasoning service may put in a choice field or a text answer
ChoiceStrings == {"even", "odd", "Even", "ODD", "", "left"}

\* str.lower() on the strings above
Lower(s) ==
    CASE s = "Even" -> "even"
      [] s = "ODD"  -> "odd"
      [] OTHER      -> s

\* the protocol's choice deadline the constructor compares llm_timeout with
ProtocolDeadline == 30

ValidModes == {"random", "llm", "hybrid"}

\* modes a caller may pass, valid or not (mode is case-sensitive)
ModeInputs == ValidModes \cup {"Random"}

\* wait bounds a caller may pass
TimeoutInputs == {1, 2, 29, 30, 31}

\* os.getenv("GOOGLE_API_KEY"): unset (None), empty, the .env placeholder, a key
NoKey == "<unset>"
PlaceholderKey == "your_google_gemini_api_key_here"
KeyInputs == {NoKey, "", PlaceholderKey, "test-api-key"}

\* `not api_key or api_key == "your_google_gemini_api_key_here"` negated
UsableKey(key) == ~(key = NoKey \/ key = "" \/ key = PlaceholderKey)

NoArgs == [mode |-> "<none>", llm_timeout |-> 0, agno |-> FALSE, key |-> NoKey]

-----------------------------------------------------------------------------
(* utils/logger.py: the module-level logger of strategy.py *)

\* setup_logger returns logging.getLogger(name), a standard-library Logger at
\* level INFO: its info/warning/error accept only exc_info, extra, stack_info
\* and stacklevel as keywords.
LoggerTakesKeywords == FALSE

\* one logger call; `keywords` is TRUE for a call passing structured fields
\* (choice=..., elapsed=..., timeout_seconds=...)
LogCall(keywords) ==
    IF keywords /\ ~LoggerTakesKeywords THEN "TypeError" ELSE "ok"

-----------------------------------------------------------------------------
(* StrategyEngine.__init__ *)

Built(m, t, a) ==
    [built |-> "ok", mode |-> m, llm_timeout |-> t, agent |-> a, err |-> "none"]

Failed(e) ==
    [built |-> "failed", mode |-> "<none>", llm_timeout |-> 0, agent |-> FALSE, err |-> e]

Unbuilt ==
    [built |-> "no", mode |-> "<none>", llm_timeout |-> 0, agent |-> FALSE, err |-> "none"]


\* mutant of TimeoutRejected: off by one, 30 itself is let through
TimeoutRejectedAbove(t) == t > ProtocolDeadline

\* `if llm_timeout >= 30: raise ValueError`
TimeoutRejected(t) == t >= ProtocolDeadline


\* mutant of KeyBranch: llm mode is built without a usable key
KeyBranchUnchecked(mode, t, key) == Built(mode, t, UsableKey(key))

\* mutant of KeyBranch: hybrid mode too requires a usable key
KeyBranchStrict(mode, t, key) ==
    IF ~UsableKey(key) THEN Failed("ValueError:api_key") ELSE Built(mode, t, TRUE)

\* the API-key branch of __init__ (library present, mode llm or hybrid)
KeyBranch(mode, t, key) ==
    IF ~UsableKey(key)
    THEN IF LogCall(FALSE) # "ok" THEN Failed("TypeError")
         ELSE IF mode = "llm" THEN Failed("ValueError:api_key")
         ELSE Built(mode, t, FALSE)
    ELSE Built(mode, t, TRUE)

\* the constructor: the engine it builds, or the error it raises
StrategyEngineInit(mode, t, agno, key) ==
    IF mode \notin ValidModes THEN Failed("ValueError:mode")
    ELSE IF TimeoutRejected(t) THEN Failed("ValueError:llm_timeout")
    ELSE IF mode \in {"llm", "hybrid"}
         THEN IF ~agno THEN Failed("ImportError") ELSE KeyBranch(mode, t, key)
         ELSE Built(mode, t, FALSE)

-----------------------------------------------------------------------------
(* Results of a call: a value returned with its origin, or an exception *)

Ret(v, origin) == [kind |-> "return", value |-> v, src |-> origin]

Raise(e) == [kind |-> "raise", value |-> e, src |-> "none"]

NoRet == [kind |-> "none", value |-> "", src |-> "none"]


\* mutant of RandomChoice: the capitalised spellings
RandomChoiceCapitalized == {Ret(c, "random") : c \in {"Even", "Odd"}}

\* _random_choice: random.choice(["even", "odd"]) (the debug log passes no keywords)
RandomChoice == {Ret(c, "random") : c \in Canon}

-----------------------------------------------------------------------------
(* The reasoning service's response objects, as _llm_choice tells them apart *)

\* response.content is a ParityChoice (pydantic pattern ^(even|odd)$), a dict
\* (with or without a "choice" key), or anything else (str()-ed); or the response
\* has no content attribute and carries (or lacks) a choice attribute.
Responses ==
    {[shape |-> "parity", has |-> TRUE, choice |-> c] : c \in Canon}
    \cup {[shape |-> sh, has |-> TRUE, choice |-> c] :
              sh \in {"dict", "text", "direct"}, c \in ChoiceStrings}
    \cup {[shape |-> sh, has |-> FALSE, choice |-> ""] : sh \in {"dict", "direct"}}

NoAnswer == [shape |-> "none", has |-> FALSE, choice |-> ""]

\* the extraction of choice from the response (strategy.py 343-361)
ExtractChoice(resp) ==
    CASE resp.shape = "parity" -> Ret(resp.choice, "llm")
      [] resp.shape = "dict"   -> Ret(IF resp.has THEN resp.choice ELSE "even", "llm")
      [] resp.shape = "text"   ->
            IF Lower(resp.choice) \notin Canon
            THEN Raise("ValueError")
            ELSE Ret(Lower(resp.choice), "llm")
      [] OTHER                 -> Ret(IF resp.has THEN resp.choice ELSE "even", "llm")

\* the final validation of _llm_choice (strategy.py 366-371)
FinalValidation(choice) ==
    IF choice \notin Canon THEN RandomChoice ELSE {Ret(choice, "llm")}

\* _llm_choice once agent.arun has returned `resp`: the results it may produce
LlmChoice(resp) ==
    LET e == ExtractChoice(resp)
    IN  IF e.kind = "raise" THEN {e}
        ELSE IF LogCall(FALSE) # "ok" THEN {Raise("TypeError")}
        ELSE FinalValidation(e.value)

-----------------------------------------------------------------------------
(* choose_parity: what happens to the outcome of asyncio.wait_for *)

\* what wait_for(self._llm_choice(context), timeout) handed back
Waited(k, v, origin) == [kind |-> k, value |-> v, src |-> origin]

NoWait == Waited("none", "", "none")


\* mutant of OuterExcept: the handler lets the exception go to the caller
OuterExceptReraises == {Raise("Exception")}

\* `except Exception as e:` of the outer try (strategy.py 298-300)
OuterExcept ==
    IF LogCall(FALSE) # "ok" THEN {Raise("TypeError")} ELSE RandomChoice

\* `except Exception as e:` of the inner try (strategy.py 290-296)
InnerExcept(mode) ==
    IF LogCall(FALSE) # "ok" THEN {Raise("TypeError")}
    ELSE IF mode = "llm" THEN {Raise("Exception")}
    ELSE RandomChoice

\* `except asyncio.TimeoutError:` of the inner try (strategy.py 284-289); an
\* exception raised by the handler itself leaves the inner try statement
TimeoutExcept ==
    IF LogCall(TRUE) # "ok" THEN {Raise("TypeError")} ELSE RandomChoice

\* the body of the inner try after wait_for returned (strategy.py 278-283)
AfterWaitReturned(mode, w) ==
    IF LogCall(TRUE) # "ok" THEN InnerExcept(mode) ELSE {Ret(w.value, w.src)}

\* the inner try statement (strategy.py 273-296)
InnerTry(mode, w) ==
    CASE w.kind = "value"   -> AfterWaitReturned(mode, w)
      [] w.kind = "timeout" -> TimeoutExcept
      [] OTHER              -> InnerExcept(mode)

\* the outer try statement (strategy.py 267-300): every Exception leaving the
\* inner statement is handled by OuterExcept
OuterTry(results) ==
    UNION {IF r.kind = "raise" THEN OuterExcept ELSE {r} : r \in results}

\* the results choose_parity may produce once wait_for has produced `w`
ChooseParityAfterWait(mode, w) == OuterTry(InnerTry(mode, w))

-----------------------------------------------------------------------------
(* Inputs of choose_parity and behaviours of the reasoning service *)

\* contexts: all keys present, {}, every value None, and one whose standings or
\* history entries are not mappings (so _format_context_prompt raises)
ContextInputs == {"full", "empty", "none_values", "malformed"}

\* _format_context_prompt: .get on the context, .items() on truthy standings,
\* .get on each of the last five history entries
FormatPromptFails(c) == c = "malformed"

\* the service answers (at some time, maybe after the bound), raises, or never resolves
ServiceBehaviours == {"answers", "raises", "hangs"}


\* mutant of TakesRandomBranch: random mode falls through to the reasoning path
TakesRandomBranchNever(mode) == FALSE

\* `if self.mode == "random": return self._random_choice()`
TakesRandomBranch(mode) == mode = "random"


\* mutant of WaitExpired: the call awaits the service with no timeout
WaitExpiredNever(waitedFor, bound) == FALSE

\* asyncio.wait_for(..., timeout=self.llm_timeout): the timeout callback is due
WaitExpired(waitedFor, bound) == waitedFor >= bound


\* mutant of OnLateResult: the late answer replaces the engine's last output
OnLateResultStored(current, resp) == Ret(Lower(resp.choice), "llm")

\* a result arriving for a call that asyncio.wait_for already cancelled: the
\* task awaiting agent.arun is gone and the engine keeps no field for it
OnLateResult(current, resp) == current

-----------------------------------------------------------------------------
(* State machine of the engine *)

EngineInit ==
    /\ ctorArgs = NoArgs
    /\ engine = Unbuilt
    /\ phase = "idle"
    /\ ncalls = 0
    /\ ctx = "none"
    /\ svc = "none"
    /\ elapsed = 0
    /\ invoked = 0
    /\ suspended = FALSE
    /\ waited = NoWait
    /\ answer = NoAnswer
    /\ ret = NoRet
    /\ returns = <<>>
    /\ inflight = {}
    /\ delivered = {}

\* StrategyEngine(mode, llm_timeout) in an environment (library, API key)
Construct ==
    /\ engine.built = "no"
    /\ \E m \in ModeInputs, t \in TimeoutInputs, agno \in BOOLEAN, key \in KeyInputs :
          /\ ctorArgs' = [mode |-> m, llm_timeout |-> t, agno |-> agno, key |-> key]
          /\ engine' = StrategyEngineInit(m, t, agno, key)
    /\ UNCHANGED <<phase, ncalls, ctx, svc, elapsed, invoked, suspended, waited,
                   answer, ret, returns, inflight, delivered>>
    /\ UNCHANGED <<builderVars, stateVars, serviceVars>>

CanStart ==
    /\ engine.built = "ok"
    /\ phase \in {"idle", "returned", "raised"}
    /\ ncalls < MaxCalls

\* the call ends with result r: a value returned to the caller, or an exception
Finish(r, callNo) ==
    /\ ret' = r
    /\ phase' = IF r.kind = "return" THEN "returned" ELSE "raised"
    /\ returns' = IF r.kind = "return"
                  THEN Append(returns, [call |-> callNo, value |-> r.value, src |-> r.src])
                  ELSE returns
    /\ elapsed' = 0

\* choose_parity in random mode: one step, no await
ChooseParityRandom ==
    /\ CanStart
    /\ TakesRandomBranch(engine.mode)
    /\ LogCall(FALSE) = "ok"
    /\ \E c \in ContextInputs : ctx' = c
    /\ ncalls' = ncalls + 1
    /\ svc' = "none"
    /\ invoked' = 0
    /\ suspended' = FALSE
    /\ waited' = NoWait
    /\ answer' = NoAnswer
    /\ \E r \in RandomChoice : Finish(r, ncalls + 1)
    /\ UNCHANGED <<ctorArgs, engine, inflight, delivered>>
    /\ UNCHANGED <<builderVars, stateVars, serviceVars>>

\* choose_parity in llm or hybrid mode when _llm_choice raises before calling
\* the service: no agent (RuntimeError), or the prompt cannot be formatted
ChooseParityFailsEarly ==
    /\ CanStart
    /\ ~TakesRandomBranch(engine.mode)
    /\ LogCall(FALSE) = "ok"
    /\ \E c \in ContextInputs :
          /\ ~engine.agent \/ FormatPromptFails(c)
          /\ ctx' = c
    /\ ncalls' = ncalls + 1
    /\ svc' = "none"
    /\ invoked' = 0
    /\ suspended' = TRUE
    /\ answer' = NoAnswer
    /\ LET w == Waited("error", IF engine.agent THEN "AttributeError" ELSE "RuntimeError", "none")
       IN  /\ waited' = w
           /\ \E r \in ChooseParityAfterWait(engine.mode, w) : Finish(r, ncalls + 1)
    /\ UNCHANGED <<ctorArgs, engine, inflight, delivered>>
    /\ UNCHANGED <<builderVars, stateVars, serviceVars>>

\* choose_parity in llm or hybrid mode reaching `await self.agent.arun(prompt)`
\* under asyncio.wait_for
ChooseParityInvokes ==
    /\ CanStart
    /\ ~TakesRandomBranch(engine.mode)
    /\ LogCall(FALSE) = "ok"
    /\ engine.agent
    /\ \E c \in ContextInputs :
          /\ ~FormatPromptFails(c)
          /\ ctx' = c
    /\ \E b \in ServiceBehaviours : svc' = b
    /\ ncalls' = ncalls + 1
    /\ invoked' = 1
    /\ suspended' = TRUE
    /\ phase' = "awaiting"
    /\ elapsed' = 0
    /\ waited' = NoWait
    /\ answer' = NoAnswer
    /\ ret' = NoRet
    /\ UNCHANGED <<ctorArgs, engine, returns, inflight, delivered>>
    /\ UNCHANGED <<builderVars, stateVars, serviceVars>>

\* a second of the bounded wait passes
Tick ==
    /\ phase = "awaiting"
    /\ ~WaitExpired(elapsed, engine.llm_timeout)
    /\ elapsed < MaxClock
    /\ elapsed' = elapsed + 1
    /\ UNCHANGED <<ctorArgs, engine, phase, ncalls, ctx, svc, invoked, suspended,
                   waited, answer, ret, returns, inflight, delivered>>
    /\ UNCHANGED <<builderVars, stateVars, serviceVars>>

\* agent.arun returns a response within the bound; _llm_choice and then
\* choose_parity run to their end
ServiceResponds ==
    /\ phase = "awaiting"
    /\ svc = "answers"
    /\ \E resp \in Responses :
          /\ answer' = resp
          /\ \E lr \in LlmChoice(resp) :
                LET w == IF lr.kind = "return"
                         THEN Waited("value", lr.value, lr.src)
                         ELSE Waited("error", lr.value, "none")
                IN  /\ waited' = w
                    /\ \E r \in ChooseParityAfterWait(engine.mode, w) : Finish(r, ncalls)
    /\ UNCHANGED <<ctorArgs, engine, ncalls, ctx, svc, invoked, suspended,
                   inflight, delivered>>
    /\ UNCHANGED <<builderVars, stateVars, serviceVars>>

\* agent.arun raises within the bound
ServiceRaises ==
    /\ phase = "awaiting"
    /\ svc = "raises"
    /\ LET w == Waited("error", "ServiceError", "none")
       IN  /\ waited' = w
           /\ \E r \in ChooseParityAfterWait(engine.mode, w) : Finish(r, ncalls)
    /\ UNCHANGED <<ctorArgs, engine, ncalls, ctx, svc, invoked, suspended, answer,
                   inflight, delivered>>
    /\ UNCHANGED <<builderVars, stateVars, serviceVars>>

\* the bound expires: wait_for cancels the task running _llm_choice and raises
\* TimeoutError; an answer the service was still to give stays in flight
TimeoutFires ==
    /\ phase = "awaiting"
    /\ WaitExpired(elapsed, engine.llm_timeout)
    /\ LET w == Waited("timeout", "TimeoutError", "none")
       IN  /\ waited' = w
           /\ \E r \in ChooseParityAfterWait(engine.mode, w) : Finish(r, ncalls)
    /\ inflight' = IF svc = "answers" THEN inflight \cup {ncalls} ELSE inflight
    /\ UNCHANGED <<ctorArgs, engine, ncalls, ctx, svc, invoked, suspended, answer,
                   delivered>>
    /\ UNCHANGED <<builderVars, stateVars, serviceVars>>

\* the answer of an abandoned reasoning call arrives
LateArrival ==
    /\ \E k \in inflight, resp \in Responses :
          /\ inflight' = inflight \ {k}
          /\ delivered' = delivered \cup {k}
          /\ ret' = OnLateResult(ret, resp)
    /\ UNCHANGED <<ctorArgs, engine, phase, ncalls, ctx, svc, elapsed, invoked,
                   suspended, waited, answer, returns>>
    /\ UNCHANGED <<builderVars, stateVars, serviceVars>>

EngineNext ==
    \/ Construct
    \/ ChooseParityRandom
    \/ ChooseParityFailsEarly
    \/ ChooseParityInvokes
    \/ Tick
    \/ ServiceResponds
    \/ ServiceRaises
    \/ TimeoutFires
    \/ LateArrival


-----------------------------------------------------------------------------
(* Properties of the Decision Engine *)

\* a choose_parity call has ended, by returning or by raising
Finished == ncalls > 0 /\ phase \in {"returned", "raised"}

\* the service delivered a structured answer (a ParityChoice, a dict or an object
\* with a choice attribute) whose choice is "even" or "odd"
StructuredCanonAnswer ==
    /\ answer.shape \in {"parity", "dict", "direct"}
    /\ answer.has
    /\ answer.choice \in Canon

\* the service delivered an answer whose outcome is outside the canonical set
AnswerOutsideCanon ==
    /\ answer.shape # "none"
    /\ ExtractChoice(answer).kind = "return"
    /\ ExtractChoice(answer).value \notin Canon

\* C1: in every mode and for every behaviour of the reasoning service, a value
\* returned by choose_parity is exactly "even" or "odd".
C1_ReturnsCanonical ==
    /\ phase = "returned" => ret.kind = "return" /\ ret.value \in Canon
    /\ \A i \in DOMAIN returns : returns[i].value \in Canon

\* C1 witness: an llm-mode call whose service answered {"choice": "Even"} returned.
C1_Witness ==
    /\ phase = "returned"
    /\ engine.mode = "llm"
    /\ answer.shape = "dict" /\ answer.has /\ answer.choice = "Even"
    /\ ret.value \in Canon

\* C2: in hybrid mode, when the reasoning call times out, raises, or answers
\* outside the canonical set, choose_parity does not raise and returns "even" or "odd".
C2_HybridNeverRaises ==
    (/\ engine.mode = "hybrid"
     /\ Finished
     /\ waited.kind \in {"timeout", "error"} \/ AnswerOutsideCanon)
    => (phase = "returned" /\ ret.kind = "return" /\ ret.value \in Canon)

\* C2 witness: a hybrid call returned after its wait bound expired.
C2_Witness ==
    /\ engine.mode = "hybrid"
    /\ phase = "returned"
    /\ waited.kind = "timeout"
    /\ ret.value \in Canon

\* C3: in hybrid mode, when the service returns a structured answer whose choice
\* is "even" or "odd" within the bound, choose_parity returns exactly that choice
\* and not a random substitute.
C3_HybridReturnsLlmAnswer ==
    (/\ engine.mode = "hybrid"
     /\ Finished
     /\ waited.kind = "value"
     /\ StructuredCanonAnswer)
    => (phase = "returned" /\ ret.value = answer.choice)

\* C4: in llm mode, when the reasoning call raises or times out, choose_parity
\* propagates the failure to its caller and returns no random fallback value.
C4_LlmPropagatesFailure ==
    (/\ engine.mode = "llm"
     /\ Finished
     /\ invoked = 1
     /\ waited.kind \in {"timeout", "error"})
    => (phase = "raised" /\ ret.kind = "raise")

\* C5: in hybrid mode with a service that never resolves, the wait never goes
\* beyond llm_timeout and choose_parity eventually returns, a value in {even, odd}.
C5_DeadlineSafety ==
    /\ [](phase = "awaiting" => elapsed <= engine.llm_timeout)
    /\ (engine.mode = "hybrid" /\ phase = "awaiting" /\ svc = "hangs")
          ~> (/\ phase = "returned"
              /\ waited.kind = "timeout"
              /\ ret.value \in Canon)

\* C5 witness: a hybrid call on a never-resolving service has returned at the bound.
C5_Witness ==
    /\ engine.mode = "hybrid"
    /\ svc = "hangs"
    /\ phase = "returned"
    /\ waited.kind = "timeout"
    /\ ret.value \in Canon

\* C6: a result of a reasoning call that arrives after the call's wait bound
\* expired changes neither the value already returned nor the outcome of any
\* later call; a timed-out call's value is the random fallback.
C6_LateResultNeverUsed ==
    /\ [][delivered' # delivered => (ret' = ret /\ returns' = returns)]_vars
    /\ [][\A i \in DOMAIN returns : i \in DOMAIN returns' /\ returns'[i] = returns[i]]_vars
    /\ [](\A i \in DOMAIN returns :
             returns[i].call \in (inflight \cup delivered) => returns[i].src = "random")

\* C6 witness: the answer of call 1 arrived after call 1 timed out, and a later
\* call has returned since.
C6_Witness ==
    /\ 1 \in delivered
    /\ ncalls = 2
    /\ phase = "returned"
    /\ Len(returns) = 2

\* C7: in random mode choose_parity returns its value without invoking the
\* reasoning service, without entering the bounded wait and without suspending,
\* for every context.
C7_RandomNoService ==
    (engine.built = "ok" /\ engine.mode = "random" /\ ncalls > 0)
    => (/\ phase = "returned"
        /\ ret.kind = "return" /\ ret.src = "random" /\ ret.value \in Canon
        /\ invoked = 0
        /\ ~suspended
        /\ waited = NoWait)

\* C7 witness: a random-mode call with a context of None values returned.
C7_Witness ==
    /\ engine.mode = "random"
    /\ phase = "returned"
    /\ ctx = "none_values"
    /\ invoked = 0

\* C8: construction fails for every llm_timeout >= 30 in every mode, succeeds
\* for 29 (random mode), and no constructed engine has a wait bound >= 30.
C8_TimeoutRejected ==
    /\ (ctorArgs # NoArgs /\ ctorArgs.llm_timeout >= ProtocolDeadline)
          => (engine.built = "failed" /\ engine.err \in {"ValueError:mode", "ValueError:llm_timeout"})
    /\ (ctorArgs # NoArgs /\ ctorArgs.llm_timeout = ProtocolDeadline - 1 /\ ctorArgs.mode = "random")
          => (engine.built = "ok" /\ engine.llm_timeout = ProtocolDeadline - 1)
    /\ engine.built = "ok" => engine.llm_timeout < ProtocolDeadline

\* C8 witness: StrategyEngine(mode="random", llm_timeout=30) raised ValueError.
C8_Witness ==
    /\ ctorArgs # NoArgs
    /\ ctorArgs.mode = "random"
    /\ ctorArgs.llm_timeout = ProtocolDeadline
    /\ engine.built = "failed"
    /\ engine.err = "ValueError:llm_timeout"

\* the reasoning capability is unavailable: library absent, or no usable API key
CapabilityUnavailable ==
    ctorArgs # NoArgs /\ (~ctorArgs.agno \/ ~UsableKey(ctorArgs.key))

\* C9 as stated: without the reasoning capability, construction in llm or in
\* hybrid mode fails; only random mode can be constructed.
C9_UnavailableRejectsLlmAndHybrid ==
    /\ (CapabilityUnavailable /\ ctorArgs.mode \in {"llm", "hybrid"}) => engine.built = "failed"
    /\ (CapabilityUnavailable /\ engine.built = "ok") => engine.mode = "random"

\* C9 amended: with the reasoning library absent, construction in llm or hybrid
\* mode fails; with the library present and no usable API key, construction in
\* llm mode fails, and hybrid mode is constructed with no agent.
C9_UnavailableRejectsLlm ==
    /\ (ctorArgs # NoArgs /\ ~ctorArgs.agno /\ ctorArgs.mode \in {"llm", "hybrid"})
          => (engine.built = "failed" /\ engine.err \in {"ImportError", "ValueError:llm_timeout"})
    /\ (CapabilityUnavailable /\ ctorArgs.mode = "llm")
          => engine.built = "failed"
    /\ (CapabilityUnavailable /\ engine.built = "ok")
          => (engine.mode \in {"random", "hybrid"} /\ ~engine.agent)
    /\ (CapabilityUnavailable /\ engine.built = "ok" /\ engine.mode = "hybrid")
          => ctorArgs.agno

\* C9 witness: StrategyEngine(mode="llm") with the library present and an empty
\* GOOGLE_API_KEY raised ValueError.
C9_Witness ==
    /\ ctorArgs # NoArgs
    /\ ctorArgs.mode = "llm"
    /\ ctorArgs.agno
    /\ ctorArgs.key = ""
    /\ engine.built = "failed"
    /\ engine.err = "ValueError:api_key"

\* StrategyEngine(mode="hybrid") was called with the library present, an
\* accepted wait bound and no usable API key
HybridWithoutKey ==
    /\ ctorArgs # NoArgs
    /\ ctorArgs.mode = "hybrid"
    /\ ctorArgs.agno
    /\ ~UsableKey(ctorArgs.key)
    /\ ctorArgs.llm_timeout < ProtocolDeadline

\* C10: constructing in hybrid mode without a usable API key succeeds with no
\* agent, and every later choose_parity call returns "even" or "odd" without raising.
C10_HybridWithoutKeyWorks ==
    HybridWithoutKey
    => (/\ engine.built = "ok"
        /\ engine.mode = "hybrid"
        /\ ~engine.agent
        /\ phase \in {"idle", "returned"}
        /\ Len(returns) = ncalls
        /\ \A i \in DOMAIN returns : returns[i].value \in Canon
        /\ phase = "returned" => (ret.kind = "return" /\ ret.value \in Canon /\ invoked = 0))

\* C10 witness: two calls on a hybrid engine built without a key have returned.
C10_Witness ==
    /\ HybridWithoutKey
    /\ ~engine.agent
    /\ ncalls >= 2
    /\ phase = "returned"
    /\ ret.value \in Canon

-----------------------------------------------------------------------------
(***************************************************************************)
(* Part 2: ProtocolMessageBuilder (core/protocol.py)                       *)
(***************************************************************************)

\* auth_token before any set_auth_token call: None
NoToken == "<None>"

\* arguments of set_auth_token (a str, possibly empty)
TokenInputs == {"", "tok-A", "tok-B"}

\* Python truthiness of an Optional[str]: `if self.auth_token`, `if not self.auth_token`
Truthy(tok) == tok # NoToken /\ tok # ""

\* the player's own identifier
OwnPlayerId == "P01"

ConversationIds == {"conv-001"}

MatchIds == {"R1M1", "R1M2"}

StatusInputs == {"acknowledged", "received"}

\* ProtocolMessageBuilder.PROTOCOL_VERSION
ProtocolVersion == "league.v2"

\* utc_now(): the envelope's timestamp (its format is not part of this model yet)
UtcNowStamp == "<utc_now>"

\* a build_* call returned message m / raised e
Ok(m) == [kind |-> "ok", msg |-> m, err |-> "none"]

NoMessage == [message_type |-> "<none>"]

Err(e) == [kind |-> "raise", msg |-> NoMessage, err |-> e]

NotBuilt == [kind |-> "none", msg |-> NoMessage, err |-> "none"]

\* dict.update: the keys of `new` are added to (or replace those of) `old`
Update(old, new) == new @@ old

\* ProtocolMessageBuilder(player_id): auth_token is None
NewBuilder(pid) == [player_id |-> pid, auth_token |-> NoToken]

\* mutant of BuildEnvelope: the token is copied without the `if not self.auth_token` check
BuildEnvelopeUnchecked(b, message_type, conversation_id, include_auth) ==
    LET envelope == [protocol |-> ProtocolVersion,
                     message_type |-> message_type,
                     sender |-> <<"player:", b.player_id>>,
                     timestamp |-> UtcNowStamp,
                     conversation_id |-> conversation_id]
    IN  IF include_auth
        THEN Ok(Update(envelope, [auth_token |-> b.auth_token]))
        ELSE Ok(envelope)

\* _build_envelope
BuildEnvelope(b, message_type, conversation_id, include_auth) ==
    LET envelope == [protocol |-> ProtocolVersion,
                     message_type |-> message_type,
                     sender |-> <<"player:", b.player_id>>,
                     timestamp |-> UtcNowStamp,
                     conversation_id |-> conversation_id]
    IN  IF include_auth
        THEN IF ~Truthy(b.auth_token)
             THEN Err("ValueError:auth_token")
             ELSE Ok(Update(envelope, [auth_token |-> b.auth_token]))
        ELSE Ok(envelope)

\* mutant of BuildLeagueRegisterRequest: the envelope is built with include_auth=True
BuildLeagueRegisterRequestWithAuth(b, conversation_id, display_name, callback_url) ==
    LET e == BuildEnvelope(b, "LEAGUE_REGISTER_REQUEST", conversation_id, TRUE)
    IN  IF e.kind = "raise" THEN e
        ELSE Ok(Update(e.msg, [player_id |-> b.player_id,
                               display_name |-> display_name,
                               callback_url |-> callback_url]))

\* build_league_register_request
BuildLeagueRegisterRequest(b, conversation_id, display_name, callback_url) ==
    LET e == BuildEnvelope(b, "LEAGUE_REGISTER_REQUEST", conversation_id, FALSE)
    IN  IF e.kind = "raise" THEN e
        ELSE Ok(Update(e.msg, [player_id |-> b.player_id,
                               display_name |-> display_name,
                               callback_url |-> callback_url]))

\* build_game_join_ack
BuildGameJoinAck(b, conversation_id, match_id, accept) ==
    LET e == BuildEnvelope(b, "GAME_JOIN_ACK", conversation_id, TRUE)
    IN  IF e.kind = "raise" THEN e
        ELSE Ok(Update(e.msg, [match_id |-> match_id,
                               player_id |-> b.player_id,
                               arrival_timestamp |-> UtcNowStamp,
                               accept |-> accept]))

\* mutant of ValidParityChoice: the comparison ignores case
ValidParityChoiceAnyCase(parity_choice) == Lower(parity_choice) \in Canon

\* `parity_choice in ["even", "odd"]` (also validate_parity_choice)
ValidParityChoice(parity_choice) == parity_choice \in Canon

\* build_choose_parity_response: the choice is validated before the envelope is built
BuildChooseParityResponse(b, conversation_id, match_id, parity_choice) ==
    IF ~ValidParityChoice(parity_choice)
    THEN Err("ValueError:parity_choice")
    ELSE LET e == BuildEnvelope(b, "CHOOSE_PARITY_RESPONSE", conversation_id, TRUE)
         IN  IF e.kind = "raise" THEN e
             ELSE Ok(Update(e.msg, [match_id |-> match_id,
                                    player_id |-> b.player_id,
                                    parity_choice |-> parity_choice]))

\* build_result_acknowledgment
BuildResultAcknowledgment(b, conversation_id, match_id, status) ==
    LET e == BuildEnvelope(b, "RESULT_ACKNOWLEDGMENT", conversation_id, TRUE)
    IN  IF e.kind = "raise" THEN e
        ELSE Ok(Update(e.msg, [match_id |-> match_id, status |-> status]))

\* ProtocolMessageBuilder.set_auth_token
BuilderWithToken(b, auth_token) == [b EXCEPT !.auth_token = auth_token]

-----------------------------------------------------------------------------
(* State machine of the builder *)

BuilderOp(name, choice) == [name |-> name, choice |-> choice]

BuilderInit ==
    /\ builder = NewBuilder(OwnPlayerId)
    /\ built = NotBuilt
    /\ lastSet = NoToken
    /\ bop = BuilderOp("<none>", "-")

BuilderSetAuthToken ==
    /\ \E t \in TokenInputs :
          /\ builder' = BuilderWithToken(builder, t)
          /\ lastSet' = t
    /\ bop' = BuilderOp("set_auth_token", "-")
    /\ UNCHANGED <<built, engineVars, stateVars, serviceVars>>

CallBuildLeagueRegisterRequest ==
    /\ \E c \in ConversationIds :
          built' = BuildLeagueRegisterRequest(builder, c, "Gemini Agent", "http://localhost:8101/mcp")
    /\ bop' = BuilderOp("build_league_register_request", "-")
    /\ UNCHANGED <<builder, lastSet, engineVars, stateVars, serviceVars>>

CallBuildGameJoinAck ==
    /\ \E c \in ConversationIds, m \in MatchIds, accept \in BOOLEAN :
          built' = BuildGameJoinAck(builder, c, m, accept)
    /\ bop' = BuilderOp("build_game_join_ack", "-")
    /\ UNCHANGED <<builder, lastSet, engineVars, stateVars, serviceVars>>

CallBuildChooseParityResponse ==
    /\ \E c \in ConversationIds, m \in MatchIds, choice \in ChoiceStrings :
          /\ built' = BuildChooseParityResponse(builder, c, m, choice)
          /\ bop' = BuilderOp("build_choose_parity_response", choice)
    /\ UNCHANGED <<builder, lastSet, engineVars, stateVars, serviceVars>>

CallBuildResultAcknowledgment ==
    /\ \E c \in ConversationIds, m \in MatchIds, st \in StatusInputs :
          built' = BuildResultAcknowledgment(builder, c, m, st)
    /\ bop' = BuilderOp("build_result_acknowledgment", "-")
    /\ UNCHANGED <<builder, lastSet, engineVars, stateVars, serviceVars>>

BuilderNext ==
    \/ BuilderSetAuthToken
    \/ CallBuildLeagueRegisterRequest
    \/ CallBuildGameJoinAck
    \/ CallBuildChooseParityResponse
    \/ CallBuildResultAcknowledgment

-----------------------------------------------------------------------------
(***************************************************************************)
(* Part 3: PlayerState (agents/player/state.py)                            *)
(***************************************************************************)

\* Python's None as a dictionary value
PyNone == "<None>"

\* dict.get(key, default)
Get(d, key, default) == IF key \in DOMAIN d THEN d[key] ELSE default

\* the default of max_history_entries
DefaultMaxHistory == 100

\* max_history_entries given to the constructor in the state machine below
HistoryLimits == {0, 1, 2}

\* number of update_from_result calls explored
MaxResults == 3

ZeroStats ==
    [wins |-> 0, losses |-> 0, draws |-> 0, total_points |-> 0, total_matches |-> 0]

\* PlayerState(player_id, max_history_entries=M) without persistence
NewPlayerState(pid, M) ==
    [player_id |-> pid,
     auth_token |-> NoToken,
     registered |-> FALSE,
     stats |-> ZeroStats,
     match_history |-> <<>>,
     max_history_entries |-> M]

\* mutant of SetAuthToken: registered is flipped instead of set
SetAuthTokenToggles(p, auth_token) ==
    [p EXCEPT !.auth_token = auth_token, !.registered = ~p.registered]

\* PlayerState.set_auth_token
SetAuthToken(p, auth_token) ==
    [p EXCEPT !.auth_token = auth_token, !.registered = TRUE]

\* mutant of ClassifyOutcome: a missing winner counts as a loss
ClassifyOutcomeMissingIsLoss(winner, pid) ==
    IF winner = pid
    THEN [result |-> "win", points |-> 3, counter |-> "wins"]
    ELSE [result |-> "loss", points |-> 0, counter |-> "losses"]

\* the if/elif/else on `winner` in update_from_result
ClassifyOutcome(winner, pid) ==
    IF winner = PyNone
    THEN [result |-> "draw", points |-> 1, counter |-> "draws"]
    ELSE IF winner = pid
         THEN [result |-> "win", points |-> 3, counter |-> "wins"]
         ELSE [result |-> "loss", points |-> 0, counter |-> "losses"]

\* mutant of BumpStats: a draw is not counted in total_matches
BumpStatsDrawUncounted(stats, outcome) ==
    [stats EXCEPT ![outcome.counter] = @ + 1,
                  !.total_points = @ + outcome.points,
                  !.total_matches = IF outcome.result = "draw" THEN @ ELSE @ + 1]

\* the counter of the outcome, total_points and total_matches are increased
BumpStats(stats, outcome) ==
    [stats EXCEPT ![outcome.counter] = @ + 1,
                  !.total_points = @ + outcome.points,
                  !.total_matches = @ + 1]

\* the MatchResult appended for a message
MakeMatchResult(msg, outcome, pid) ==
    LET opponent_id == Get(msg, "opponent_id", "unknown")
        choices == Get(msg, "choices", [k \in {} |-> PyNone])
    IN  [match_id |-> Get(msg, "match_id", "unknown"),
         opponent_id |-> opponent_id,
         player_choice |-> Get(choices, pid, "unknown"),
         opponent_choice |-> Get(choices, opponent_id, "unknown"),
         drawn_number |-> Get(msg, "drawn_number", 0),
         result |-> outcome.result,
         points_earned |-> outcome.points,
         timestamp |-> UtcNowStamp]

\* mutant of TrimHistory: the oldest entries are kept, history[:M]
TrimHistoryKeepsOldest(history, M) ==
    IF Len(history) > M THEN SubSeq(history, 1, M) ELSE history

\* history[-M:] when the history is longer than M; Python's [-0:] is the whole list
TrimHistory(history, M) ==
    IF Len(history) > M
    THEN IF M = 0 THEN history
         ELSE SubSeq(history, Len(history) - M + 1, Len(history))
    ELSE history

\* mutant of ApplyResult: a message whose match_id is already recorded is ignored
ApplyResultOncePerMatch(p, msg) ==
    IF \E i \in 1..Len(p.match_history) :
          p.match_history[i].match_id = Get(msg, "match_id", "unknown")
    THEN p
    ELSE LET outcome == ClassifyOutcome(Get(msg, "winner", PyNone), p.player_id)
         IN  [p EXCEPT !.stats = BumpStats(p.stats, outcome),
                       !.match_history =
                           TrimHistory(Append(p.match_history,
                                              MakeMatchResult(msg, outcome, p.player_id)),
                                       p.max_history_entries)]

\* PlayerState.update_from_result
ApplyResult(p, msg) ==
    LET outcome == ClassifyOutcome(Get(msg, "winner", PyNone), p.player_id)
    IN  [p EXCEPT !.stats = BumpStats(p.stats, outcome),
                  !.match_history =
                      TrimHistory(Append(p.match_history,
                                         MakeMatchResult(msg, outcome, p.player_id)),
                                  p.max_history_entries)]

\* mutant of GetStatsResult: `return self.stats`, the caller holds the internal dict
GetStatsResultAliased(p) == [stats |-> p.stats, shared |-> TRUE]

\* PlayerState.get_stats: `return self.stats.copy()`, a new dict with the same entries
GetStatsResult(p) == [stats |-> p.stats, shared |-> FALSE]

\* GAME_OVER / match result messages given to update_from_result
ResultInputs ==
    << [match_id |-> "R1M1", winner |-> "P01", drawn_number |-> 7,
        choices |-> ("P01" :> "odd" @@ "P02" :> "even"), opponent_id |-> "P02"],
       [match_id |-> "R1M2", winner |-> "P02", drawn_number |-> 4,
        choices |-> ("P01" :> "odd" @@ "P02" :> "even"), opponent_id |-> "P02"],
       [match_id |-> "R1M1", winner |-> PyNone, drawn_number |-> 0,
        choices |-> ("P01" :> "even" @@ "P02" :> "even"), opponent_id |-> "P02"],
       [match_id |-> "R2M1", winner |-> "P03"],
       [k \in {} |-> PyNone] >>

\* what a caller writes into the dict it got from get_stats
SnapshotWrites == {[key |-> "wins", value |-> 99]}

\* a query returned v / raised e
Returned(v) == [kind |-> "ok", value |-> v]

Raised(e) == [kind |-> "raise", value |-> e]

\* Python's a / b on two ints: the quotient as a ratio, ZeroDivisionError for b = 0
TrueDivide(a, b) ==
    IF b = 0 THEN Raised("ZeroDivisionError") ELSE Returned([num |-> a, den |-> b])

\* the float literal 0.0
ZeroFloat == [num |-> 0, den |-> 1]

\* mutant of GetWinRate: the quotient is taken without the total_matches == 0 test
GetWinRateUnguarded(p) == TrueDivide(p.stats.wins, p.stats.total_matches)

\* PlayerState.get_win_rate
GetWinRate(p) ==
    IF p.stats.total_matches = 0
    THEN Returned(ZeroFloat)
    ELSE TrueDivide(p.stats.wins, p.stats.total_matches)

\* the limit argument of get_match_history: omitted (None) or an int
NoLimit == [given |-> FALSE, n |-> 0]

\* limits a caller passes: zero, below, at and above the length of the history
LimitValues == {0, 1, 2, 5}

LimitInputs == {NoLimit} \cup {[given |-> TRUE, n |-> k] : k \in LimitValues}

\* Python truthiness of Optional[int]: `if limit`
TruthyLimit(limit) == limit.given /\ limit.n # 0

\* lst[-n:] for n > 0: the last n elements, the whole list when it is shorter
LastSlice(lst, n) ==
    IF n >= Len(lst) THEN lst ELSE SubSeq(lst, Len(lst) - n + 1, Len(lst))

\* dataclasses.asdict on a MatchResult: a new dict with the same fields
AsDict(m) ==
    [match_id |-> m.match_id,
     opponent_id |-> m.opponent_id,
     player_choice |-> m.player_choice,
     opponent_choice |-> m.opponent_choice,
     drawn_number |-> m.drawn_number,
     result |-> m.result,
     points_earned |-> m.points_earned,
     timestamp |-> m.timestamp]

\* PlayerState.get_match_history
GetMatchHistoryResult(p, limit) ==
    LET history == [i \in 1..Len(p.match_history) |-> AsDict(p.match_history[i])]
    IN  IF TruthyLimit(limit)
        THEN Returned(LastSlice(history, limit.n))
        ELSE Returned(history)


-----------------------------------------------------------------------------
(* State machine of the player state *)

StateOp(name, arg, rep) == [name |-> name, arg |-> arg, rep |-> rep]

NoSnapshot == [taken |-> FALSE, stats |-> ZeroStats]

\* a call that returns None, or no call yet
NoResult == [kind |-> "none", value |-> "-"]

StateInitWith(M) ==
    /\ ps = NewPlayerState(OwnPlayerId, M)
    /\ applied = <<>>
    /\ sop = StateOp("<none>", "-", 0)
    /\ snapshot = NoSnapshot
    /\ snapShared = FALSE
    /\ qres = NoResult

StateInit == \E M \in HistoryLimits : StateInitWith(M)

\* a dict the caller holds that is the internal one follows every change of it
Aliased(newStats) ==
    snapshot' = IF snapShared THEN [snapshot EXCEPT !.stats = newStats] ELSE snapshot

StateSetAuthToken ==
    /\ \E t \in TokenInputs :
          /\ ps' = SetAuthToken(ps, t)
          /\ sop' = StateOp("set_auth_token", t,
                            IF sop.name = "set_auth_token" /\ sop.arg = t THEN 2 ELSE 1)
    /\ qres' = NoResult
    /\ UNCHANGED <<applied, snapshot, snapShared, engineVars, builderVars, serviceVars>>

UpdateFromResult ==
    /\ Len(applied) < MaxResults
    /\ \E i \in 1..Len(ResultInputs) :
          /\ ps' = ApplyResult(ps, ResultInputs[i])
          /\ applied' = Append(applied, ResultInputs[i])
          /\ sop' = StateOp("update_from_result", i, 1)
    /\ Aliased(ps'.stats)
    /\ qres' = NoResult
    /\ UNCHANGED <<snapShared, engineVars, builderVars, serviceVars>>

GetStats ==
    /\ snapshot' = [taken |-> TRUE, stats |-> GetStatsResult(ps).stats]
    /\ snapShared' = GetStatsResult(ps).shared
    /\ sop' = StateOp("get_stats", "-", 1)
    /\ qres' = NoResult
    /\ UNCHANGED <<ps, applied, engineVars, builderVars, serviceVars>>

MutateSnapshot ==
    /\ snapshot.taken
    /\ \E w \in SnapshotWrites :
          /\ snapshot' = [snapshot EXCEPT !.stats[w.key] = w.value]
          /\ ps' = IF snapShared THEN [ps EXCEPT !.stats[w.key] = w.value] ELSE ps
          /\ sop' = StateOp("mutate_snapshot", w.key, 1)
    /\ qres' = NoResult
    /\ UNCHANGED <<applied, snapShared, engineVars, builderVars, serviceVars>>

CallGetWinRate ==
    /\ qres' = GetWinRate(ps)
    /\ sop' = StateOp("get_win_rate", "-", 1)
    /\ UNCHANGED <<ps, applied, snapshot, snapShared, engineVars, builderVars, serviceVars>>

CallGetMatchHistory ==
    /\ \E limit \in LimitInputs :
          /\ qres' = GetMatchHistoryResult(ps, limit)
          /\ sop' = StateOp("get_match_history", limit, 1)
    /\ UNCHANGED <<ps, applied, snapshot, snapShared, engineVars, builderVars, serviceVars>>

\* PlayerState.get_opponent_history
GetOpponentHistoryResult(p, opponent_id) ==
    LET Against(m) == m.opponent_id = opponent_id
        matches == SelectSeq(p.match_history, Against)
    IN  Returned([i \in 1..Len(matches) |-> AsDict(matches[i])])

\* opponents asked about: one played, one played without being named, one never met
OpponentInputs == {"P02", "unknown", "P09"}

CallGetOpponentHistory ==
    /\ \E opponent_id \in OpponentInputs :
          /\ qres' = GetOpponentHistoryResult(ps, opponent_id)
          /\ sop' = StateOp("get_opponent_history", opponent_id, 1)
    /\ UNCHANGED <<ps, applied, snapshot, snapShared, engineVars, builderVars, serviceVars>>

StateNext ==
    \/ StateSetAuthToken
    \/ UpdateFromResult
    \/ GetStats
    \/ MutateSnapshot

\* the mutating operations together with the read-only projections
QueryNext ==
    \/ StateSetAuthToken
    \/ UpdateFromResult
    \/ CallGetWinRate
    \/ CallGetMatchHistory

-----------------------------------------------------------------------------
(***************************************************************************)
(* Properties of the message builder (BuilderSpec)                         *)
(***************************************************************************)

\* the builders whose envelope carries the token
AuthBuilders ==
    {"build_game_join_ack", "build_choose_parity_response", "build_result_acknowledgment"}

\* the last operation was an authenticated build whose other arguments are valid
AuthBuildCalled ==
    /\ bop.name \in AuthBuilders
    /\ bop.name = "build_choose_parity_response" => bop.choice \in Canon

\* C11 as stated: an authenticated builder raises and produces no message while no
\* token has been set, and after set_auth_token(t), for any t, it succeeds with a
\* message whose auth_token is the most recently set t.
C11_AuthTokenRequiredThenCarried ==
    AuthBuildCalled =>
        /\ lastSet = NoToken => built.kind = "raise" /\ built.msg = NoMessage
        /\ lastSet # NoToken =>
              /\ built.kind = "ok"
              /\ built.msg.auth_token = lastSet

\* C11 amended: an authenticated builder raises and produces no message while no
\* token or an empty token is set, and after set_auth_token(t) with a non-empty t
\* it succeeds with a message whose auth_token is the most recently set t.
C11_NonEmptyTokenCarried ==
    AuthBuildCalled =>
        /\ ~Truthy(lastSet) =>
              /\ built.kind = "raise"
              /\ built.err = "ValueError:auth_token"
              /\ built.msg = NoMessage
        /\ Truthy(lastSet) =>
              /\ built.kind = "ok"
              /\ built.msg.auth_token = lastSet

\* an acknowledgment built after the token was set carries that token
C11_Witness ==
    /\ bop.name = "build_result_acknowledgment"
    /\ lastSet = "tok-B"
    /\ built.kind = "ok"
    /\ built.msg.message_type = "RESULT_ACKNOWLEDGMENT"
    /\ built.msg.auth_token = "tok-B"

\* C12: build_league_register_request succeeds whether or not a token is set, and
\* its message never has an auth_token field, also after set_auth_token.
C12_RegisterRequestWithoutToken ==
    bop.name = "build_league_register_request" =>
        /\ built.kind = "ok"
        /\ built.msg.message_type = "LEAGUE_REGISTER_REQUEST"
        /\ "auth_token" \notin DOMAIN built.msg

\* a registration request built after a token was set
C12_Witness ==
    /\ bop.name = "build_league_register_request"
    /\ lastSet = "tok-A"
    /\ builder.auth_token = "tok-A"
    /\ built.kind = "ok"

\* C13: build_choose_parity_response raises a validation error for every
\* parity_choice other than exactly "even" or "odd"; for "even" and "odd" with a
\* token set it returns a message whose parity_choice is the input; no
\* CHOOSE_PARITY_RESPONSE message exists with a parity_choice outside {"even","odd"}.
C13_ParityChoiceValidated ==
    /\ bop.name = "build_choose_parity_response" =>
          /\ bop.choice \notin {"even", "odd"} =>
                /\ built.kind = "raise"
                /\ built.err = "ValueError:parity_choice"
                /\ built.msg = NoMessage
          /\ bop.choice \in {"even", "odd"} /\ Truthy(builder.auth_token) =>
                /\ built.kind = "ok"
                /\ built.msg.message_type = "CHOOSE_PARITY_RESPONSE"
                /\ built.msg.parity_choice = bop.choice
    /\ built.kind = "ok" /\ built.msg.message_type = "CHOOSE_PARITY_RESPONSE" =>
          built.msg.parity_choice \in {"even", "odd"}

\* "ODD" is rejected although a token is set
C13_Witness ==
    /\ bop.name = "build_choose_parity_response"
    /\ bop.choice = "ODD"
    /\ Truthy(builder.auth_token)
    /\ built.kind = "raise"

-----------------------------------------------------------------------------
(***************************************************************************)
(* Properties of the player state (StateSpec)                              *)
(***************************************************************************)

\* C14: in every state reachable from a fresh PlayerState through
\* update_from_result and set_auth_token, total_matches = wins + draws + losses
\* and total_points = 3 * wins + draws.
C14_StatsConsistent ==
    /\ ps.stats.total_matches = ps.stats.wins + ps.stats.draws + ps.stats.losses
    /\ ps.stats.total_points = 3 * ps.stats.wins + ps.stats.draws

\* a win, a draw and a loss have been applied, and a token set
C14_Witness ==
    /\ ps.stats.wins = 1
    /\ ps.stats.draws = 1
    /\ ps.stats.losses = 1
    /\ ps.stats.total_points = 4
    /\ ps.registered

LastApplied == applied[Len(applied)]

\* the record appended last
LastRecord == ps.match_history[Len(ps.match_history)]

\* C16: update_from_result classifies by the winner field only: absent or None is
\* a draw worth 1 point, the player's own id a win worth 3, any other value a
\* loss worth 0; the appended record has that result and points_earned, and
\* exactly the matching one of wins, draws, losses grows by one.
C16_ClassifiedByWinner ==
    [][sop'.name = "update_from_result" =>
          LET msg == LastApplied'
              absent == "winner" \notin DOMAIN msg
              counter == IF absent THEN "draws"
                         ELSE IF msg.winner = PyNone THEN "draws"
                         ELSE IF msg.winner = "P01" THEN "wins"
                         ELSE "losses"
              result == IF counter = "draws" THEN "draw"
                        ELSE IF counter = "wins" THEN "win" ELSE "loss"
              points == IF counter = "draws" THEN 1
                        ELSE IF counter = "wins" THEN 3 ELSE 0
          IN  /\ LastRecord'.result = result
              /\ LastRecord'.points_earned = points
              /\ ps'.stats.total_points = ps.stats.total_points + points
              /\ \A k \in {"wins", "draws", "losses"} :
                    ps'.stats[k] = ps.stats[k] + (IF k = counter THEN 1 ELSE 0)]_vars

\* a message without a winner field recorded as a draw after a win
C16_Witness ==
    /\ sop.name = "update_from_result"
    /\ Len(applied) = 2
    /\ applied[1] = ResultInputs[1]
    /\ "winner" \notin DOMAIN LastApplied
    /\ LastRecord.result = "draw"
    /\ LastRecord.points_earned = 1
    /\ ps.stats.draws = 1
    /\ ps.stats.wins = 1

Min(a, b) == IF a < b THEN a ELSE b

\* the record of the i-th applied message
RecordOf(i) ==
    MakeMatchResult(applied[i],
                    ClassifyOutcome(Get(applied[i], "winner", PyNone), ps.player_id),
                    ps.player_id)

\* C17: with max_history_entries = M >= 1 and N results applied, match_history
\* has length min(N, M) and holds exactly the last min(N, M) applied records in
\* their original order.
C17_HistoryKeepsLastM ==
    ps.max_history_entries >= 1 =>
        LET N == Len(applied)
            K == Min(N, ps.max_history_entries)
        IN  /\ Len(ps.match_history) = K
            /\ \A i \in 1..K : ps.match_history[i] = RecordOf(N - K + i)

\* the oldest of three results has been evicted from a history of two
C17_Witness ==
    /\ ps.max_history_entries = 2
    /\ Len(applied) = 3
    /\ applied[1] = ResultInputs[1]
    /\ Len(ps.match_history) = 2
    /\ ps.match_history[1].match_id = "R1M2"
    /\ ps.match_history[2].match_id = "R2M1"

\* C34 as stated: in every state reachable after any sequence of
\* update_from_result calls, len(match_history) never exceeds
\* max_history_entries, for every configured non-negative maximum, including
\* max_history_entries = 0.
C34_HistoryWithinMaximum ==
    Len(ps.match_history) <= ps.max_history_entries

\* C18: set_auth_token is idempotent: calling it a second time with the same
\* token leaves auth_token, registered, stats and match_history as they were
\* after the first call.
C18_SetAuthTokenIdempotent ==
    [][(/\ sop.name = "set_auth_token"
        /\ sop'.name = "set_auth_token"
        /\ sop'.arg = sop.arg)
       => /\ ps'.auth_token = ps.auth_token
          /\ ps'.registered = ps.registered
          /\ ps'.stats = ps.stats
          /\ ps'.match_history = ps.match_history]_vars

\* the same token set twice in a row on a state with history
C18_Witness ==
    /\ sop.name = "set_auth_token"
    /\ sop.rep = 2
    /\ sop.arg = "tok-A"
    /\ ps.auth_token = "tok-A"
    /\ ps.registered
    /\ Len(ps.match_history) > 0

\* C19 as stated: registered is true exactly when a token is present: false with
\* no token on a fresh state, true with a non-empty token after any
\* set_auth_token call, for every argument set_auth_token accepts.
C19_RegisteredIffTokenPresent ==
    /\ ps.registered <=> Truthy(ps.auth_token)
    /\ sop.name = "<none>" => ~ps.registered /\ ps.auth_token = NoToken
    /\ sop.name = "set_auth_token" => ps.registered /\ Truthy(ps.auth_token)

\* C20: get_stats returns a snapshot equal to the current counters, and writing
\* into the returned snapshot never changes the internal stats, so a later
\* get_stats still returns the counters.
C20_GetStatsIsSnapshot ==
    /\ [](sop.name = "get_stats" => snapshot.taken /\ snapshot.stats = ps.stats)
    /\ [][sop'.name = "mutate_snapshot" => ps'.stats = ps.stats]_vars

\* a caller has overwritten wins in a snapshot and the counters kept their values
C20_Witness ==
    /\ sop.name = "mutate_snapshot"
    /\ snapshot.stats.wins = 99
    /\ ps.stats.wins = 1
    /\ ps.stats.total_matches = 2

\* C21: get_win_rate never raises: it returns exactly 0.0 when total_matches is 0
\* and wins / total_matches otherwise, in every reachable state.
C21_WinRateNeverRaises ==
    sop.name = "get_win_rate" =>
        /\ qres.kind = "ok"
        /\ ps.stats.total_matches = 0 => qres.value = [num |-> 0, den |-> 1]
        /\ ps.stats.total_matches # 0 =>
              qres.value = [num |-> ps.stats.wins, den |-> ps.stats.total_matches]

\* the win rate of a fresh state with a token set is 0.0
C21_Witness ==
    /\ sop.name = "get_win_rate"
    /\ ps.stats.total_matches = 0
    /\ ps.registered
    /\ qres = [kind |-> "ok", value |-> [num |-> 0, den |-> 1]]

\* C22 as stated: get_match_history(limit) returns, oldest first, exactly the most
\* recent min(limit, len(history)) records for every non-negative integer limit,
\* and all records when no limit is given; it never changes the stored history.
C22_HistoryLimitExact ==
    /\ [](sop.name = "get_match_history" =>
             LET L == Len(ps.match_history)
                 K == IF sop.arg.given THEN Min(sop.arg.n, L) ELSE L
             IN  /\ qres.kind = "ok"
                 /\ Len(qres.value) = K
                 /\ \A i \in 1..K : qres.value[i] = ps.match_history[L - K + i])
    /\ [][sop'.name = "get_match_history" => ps'.match_history = ps.match_history]_vars

-----------------------------------------------------------------------------
(***************************************************************************)
(* Part 4: TimestampUtil (utils/timestamp.py)                              *)
(*                                                                         *)
(* An instant is a pair (seconds, microseconds).  A timestamp string is    *)
(* described by its parts: the shape of its date-time text, the second and *)
(* the fraction it shows, and its timezone suffix.                         *)
(***************************************************************************)

\* the model's clock stops at this second
MaxSec == 3

\* microsecond components of the clock: a whole second and a half second
Micros == {0, 500000}

MicrosPerSecond == 1000000

Instant(sec, micro) == [sec |-> sec, micro |-> micro]

Instants == {Instant(sec, micro) : sec \in 0..MaxSec, micro \in Micros}

\* a string of the form date 'T' time [fraction] [suffix]
Stamp(shape, sec, hasFrac, micro, tz) ==
    [shape |-> shape, sec |-> sec, frac |-> [has |-> hasFrac, micro |-> micro], tz |-> tz]

\* strings that are not of that form: "", "not-a-timestamp"; and None
EmptyString == Stamp("empty", 0, FALSE, 0, "")

GarbageString == Stamp("garbage", 0, FALSE, 0, "")

NoneStamp == Stamp("none", 0, FALSE, 0, "")

\* datetime.isoformat() of an aware UTC datetime: the fraction is written only
\* when the microsecond component is not 0, and the offset as +00:00
IsoFormat(inst) ==
    Stamp("iso", inst.sec, inst.micro # 0, inst.micro, "+00:00")

\* mutant of ReplaceOffsetByZ: the offset is left in place
ReplaceOffsetKept(text) == text

\* str.replace('+00:00', 'Z')
ReplaceOffsetByZ(text) ==
    IF text.tz = "+00:00" THEN [text EXCEPT !.tz = "Z"] ELSE text

\* TimestampUtil.get_utc_now at instant inst
GetUtcNow(inst) == ReplaceOffsetByZ(IsoFormat(inst))

\* ISO8601_PATTERN.match: digits in date and time places, optional fraction, 'Z'
MatchesPattern(text) == text.shape \in {"iso", "digits"} /\ text.tz = "Z"

\* TimestampUtil._parse_timestamp: rstrip('Z'), datetime.fromisoformat, UTC attached
ParseTimestamp(text) ==
    IF text.shape = "iso" /\ text.tz \in {"Z", "", "+00:00"}
    THEN Returned(Instant(text.sec, IF text.frac.has THEN text.frac.micro ELSE 0))
    ELSE Raised("ValueError")

\* Python truthiness of Optional[str]
TruthyString(text) == text.shape \notin {"empty", "none"}

\* TimestampUtil.validate_timestamp
ValidateTimestamp(text) ==
    IF ~TruthyString(text) THEN Raised("ValueError")
    ELSE IF ~MatchesPattern(text) THEN Returned(FALSE)
    ELSE IF ParseTimestamp(text).kind = "raise" THEN Returned(FALSE)
    ELSE Returned(TRUE)

\* timedelta.total_seconds() of b - a, in microseconds
ElapsedMicros(a, b) == (b.sec - a.sec) * MicrosPerSecond + (b.micro - a.micro)

\* TimestampUtil.is_expired with the clock showing `clock`
IsExpired(timestamp_str, timeout_seconds, reference_time, clock) ==
    IF timeout_seconds < 0 THEN Raised("ValueError")
    ELSE LET v == ValidateTimestamp(timestamp_str)
         IN  IF v.kind = "raise" THEN v
             ELSE IF ~v.value THEN Raised("ValueError")
             ELSE LET start_dt == ParseTimestamp(timestamp_str).value
                  IN  IF TruthyString(reference_time)
                      THEN LET r == ValidateTimestamp(reference_time)
                           IN  IF r.kind = "raise" THEN r
                               ELSE IF ~r.value THEN Raised("ValueError")
                               ELSE Returned(
                                      ElapsedMicros(start_dt,
                                                    ParseTimestamp(reference_time).value)
                                        > timeout_seconds * MicrosPerSecond)
                      ELSE Returned(ElapsedMicros(start_dt, clock)
                                      > timeout_seconds * MicrosPerSecond)

\* mutant of GetSecondsUntilDeadline: elapsed - timeout_seconds is returned
GetSecondsUntilDeadlineNegated(start_timestamp, timeout_seconds, reference_time, clock) ==
    LET v == ValidateTimestamp(start_timestamp)
    IN  IF v.kind = "raise" THEN v
        ELSE IF ~v.value THEN Raised("ValueError")
        ELSE LET start_dt == ParseTimestamp(start_timestamp).value
                 current_dt == IF TruthyString(reference_time)
                               THEN ParseTimestamp(reference_time).value
                               ELSE clock
             IN  IF TruthyString(reference_time)
                    /\ ValidateTimestamp(reference_time) # Returned(TRUE)
                 THEN Raised("ValueError")
                 ELSE Returned(ElapsedMicros(start_dt, current_dt)
                                 - timeout_seconds * MicrosPerSecond)

\* TimestampUtil.get_seconds_until_deadline with the clock showing `clock`; the
\* float of seconds it returns is given in microseconds
GetSecondsUntilDeadline(start_timestamp, timeout_seconds, reference_time, clock) ==
    LET v == ValidateTimestamp(start_timestamp)
    IN  IF v.kind = "raise" THEN v
        ELSE IF ~v.value THEN Raised("ValueError")
        ELSE LET start_dt == ParseTimestamp(start_timestamp).value
             IN  IF TruthyString(reference_time)
                 THEN LET r == ValidateTimestamp(reference_time)
                      IN  IF r.kind = "raise" THEN r
                          ELSE IF ~r.value THEN Raised("ValueError")
                          ELSE Returned(
                                 timeout_seconds * MicrosPerSecond
                                   - ElapsedMicros(start_dt,
                                                   ParseTimestamp(reference_time).value))
                 ELSE Returned(timeout_seconds * MicrosPerSecond
                                 - ElapsedMicros(start_dt, clock))

\* timestamps a caller may pass: well-formed ones with and without a fraction, one
\* with a numeric offset, one without suffix, one that is not a calendar date
\* (month 13), and strings that are no timestamps
StampInputs ==
    {Stamp("iso", sec, FALSE, 0, "Z") : sec \in 0..MaxSec}
      \cup {Stamp("iso", 1, TRUE, 500000, "Z"),
            Stamp("iso", 1, FALSE, 0, "+02:00"),
            Stamp("iso", 1, FALSE, 0, ""),
            Stamp("digits", 1, FALSE, 0, "Z"),
            GarbageString,
            EmptyString}

\* the reference_time argument: a string, or None when omitted
ReferenceInputs == StampInputs \cup {NoneStamp}

TimeoutSecondsInputs == {-1, 0, 1}

-----------------------------------------------------------------------------
(* State machine of the timestamp utility *)

ClockOp(name, text, timeout, reference) ==
    [name |-> name, text |-> text, timeout |-> timeout, reference |-> reference]

ClockInit ==
    /\ now = Instant(0, 0)
    /\ tsop = ClockOp("<none>", NoneStamp, 0, NoneStamp)
    /\ tsres = NoResult

\* time passes
ClockAdvances ==
    /\ \E later \in Instants :
          /\ ElapsedMicros(now, later) > 0
          /\ now' = later
    /\ UNCHANGED <<tsop, tsres, engineVars, builderVars, stateVars, handlerVars,
                   serverVars, taskVars>>

\* get_utc_now, or utc_now which calls it
CallGetUtcNow ==
    /\ \E f \in {"get_utc_now", "utc_now"} :
          tsop' = ClockOp(f, NoneStamp, 0, NoneStamp)
    /\ tsres' = Returned(GetUtcNow(now))
    /\ UNCHANGED <<now, engineVars, builderVars, stateVars, handlerVars,
                   serverVars, taskVars>>

CallValidateTimestamp ==
    /\ \E text \in StampInputs :
          /\ tsop' = ClockOp("validate_timestamp", text, 0, NoneStamp)
          /\ tsres' = ValidateTimestamp(text)
    /\ UNCHANGED <<now, engineVars, builderVars, stateVars, handlerVars,
                   serverVars, taskVars>>

CallIsExpired ==
    /\ \E text \in StampInputs, t \in TimeoutSecondsInputs, ref \in ReferenceInputs :
          /\ tsop' = ClockOp("is_expired", text, t, ref)
          /\ tsres' = IsExpired(text, t, ref, now)
    /\ UNCHANGED <<now, engineVars, builderVars, stateVars, handlerVars,
                   serverVars, taskVars>>

CallGetSecondsUntilDeadline ==
    /\ \E text \in StampInputs, t \in TimeoutSecondsInputs, ref \in ReferenceInputs :
          /\ tsop' = ClockOp("get_seconds_until_deadline", text, t, ref)
          /\ tsres' = GetSecondsUntilDeadline(text, t, ref, now)
    /\ UNCHANGED <<now, engineVars, builderVars, stateVars, handlerVars,
                   serverVars, taskVars>>

ClockNext ==
    \/ ClockAdvances
    \/ CallGetUtcNow
    \/ CallValidateTimestamp
    \/ CallIsExpired

\* the deadline arithmetic on its own
DeadlineNext ==
    \/ ClockAdvances
    \/ CallGetSecondsUntilDeadline

-----------------------------------------------------------------------------
(***************************************************************************)
(* Properties of the timestamp utility (ClockSpec)                         *)
(***************************************************************************)

Producers == {"get_utc_now", "utc_now"}

\* the string ends in the character Z
EndsInZ(text) == text.shape \in {"iso", "digits"} /\ text.tz = "Z"

\* the string contains the character +
ContainsPlus(text) == text.tz \in {"+00:00", "+02:00"}

\* C28: every timestamp produced by utc_now / get_utc_now, at any instant,
\* validates as true under validate_timestamp, ends in "Z" and contains no "+".
C28_ProducedTimestampsValid ==
    tsop.name \in Producers =>
        /\ tsres.kind = "ok"
        /\ ValidateTimestamp(tsres.value) = Returned(TRUE)
        /\ EndsInZ(tsres.value)
        /\ ~ContainsPlus(tsres.value)

\* a timestamp produced by utc_now half a second after second 2
C28_Witness ==
    /\ tsop.name = "utc_now"
    /\ now = Instant(2, 500000)
    /\ tsres.kind = "ok"
    /\ tsres.value.sec = 2
    /\ tsres.value.tz = "Z"

\* C29 as stated: every timestamp produced by get_utc_now includes a
\* fractional-seconds part, also at instants whose microsecond component is 0.
C29_AlwaysFractional ==
    tsop.name \in Producers => tsres.kind = "ok" /\ tsres.value.frac.has

\* a string that is a timestamp of the protocol: calendar date and time, suffix Z
IsValidStamp(text) == text.shape = "iso" /\ text.tz = "Z"

\* C30 as stated: is_expired(start, timeout, reference) returns true exactly when
\* reference - start is strictly greater than timeout, and raises instead of
\* returning when start or reference is not a valid timestamp or timeout is negative.
C30_ExpiredStrictlyAfterTimeout ==
    tsop.name = "is_expired" /\ tsop.reference # NoneStamp =>
        LET bad == \/ tsop.timeout < 0
                   \/ ~IsValidStamp(tsop.text)
                   \/ ~IsValidStamp(tsop.reference)
            micros(t) == t.sec * MicrosPerSecond + (IF t.frac.has THEN t.frac.micro ELSE 0)
        IN  /\ bad => tsres.kind = "raise"
            /\ ~bad =>
                  /\ tsres.kind = "ok"
                  /\ tsres.value <=>
                        (micros(tsop.reference) - micros(tsop.text)
                            > tsop.timeout * MicrosPerSecond)

\* the instant a well-formed timestamp names, in microseconds
StampMicros(t) == t.sec * MicrosPerSecond + (IF t.frac.has THEN t.frac.micro ELSE 0)

\* C39: is_expired and get_seconds_until_deadline agree: for every valid start
\* and reference timestamp and every timeout >= 0, is_expired is true if and
\* only if get_seconds_until_deadline is negative, and
\* get_seconds_until_deadline equals the timeout minus the elapsed seconds.
C39_DeadlineFunctionsAgree ==
    (/\ tsop.name = "get_seconds_until_deadline"
     /\ IsValidStamp(tsop.text)
     /\ IsValidStamp(tsop.reference)
     /\ tsop.timeout >= 0)
    => /\ tsres.kind = "ok"
       /\ tsres.value = tsop.timeout * MicrosPerSecond
                          - (StampMicros(tsop.reference) - StampMicros(tsop.text))
       /\ LET expired == IsExpired(tsop.text, tsop.timeout, tsop.reference, now)
          IN  /\ expired.kind = "ok"
              /\ expired.value <=> tsres.value < 0

\* a deadline of one second asked about more than one second after the start,
\* and one asked about exactly at its end
C39_Witness ==
    /\ tsop.name = "get_seconds_until_deadline"
    /\ IsValidStamp(tsop.text)
    /\ IsValidStamp(tsop.reference)
    /\ tsop.timeout = 1
    /\ tsres.kind = "ok"
    /\ tsres.value < 0
    /\ StampMicros(tsop.reference) - StampMicros(tsop.text) > MicrosPerSecond

-----------------------------------------------------------------------------
(***************************************************************************)
(* Part 5: ToolHandlers (agents/player/handlers.py)                        *)
(*                                                                         *)
(* A ToolHandlers object holds the PlayerState (ps), its own               *)
(* ProtocolMessageBuilder (builder) and the StrategyEngine.  What the      *)
(* engine does for one call is an input of choose_parity here.             *)
(***************************************************************************)

\* number of notify_match_result calls explored
MaxNotifies == 2

\* the empty dict {}
EmptyDict == [k \in {} |-> PyNone]

\* a `choices` value that is a str, not a dict: it has no .get
NonDictChoices == [str |-> "even"]

IsDict(v) == "str" \notin DOMAIN v

\* params of GAME_INVITATION: complete, conversation only, empty
InvitationInputs ==
    << [conversation_id |-> "conv-001", match_id |-> "R1M1", opponent_id |-> "P02",
        game_type |-> "even_odd", deadline |-> "<deadline>"],
       [conversation_id |-> "conv-001"],
       EmptyDict >>

\* params of CHOOSE_PARITY_CALL: complete, empty
ParityCallInputs ==
    << [conversation_id |-> "conv-001", match_id |-> "R1M1", opponent_id |-> "P02",
        standings |-> EmptyDict, deadline |-> "<deadline>"],
       EmptyDict >>

\* params of GAME_OVER: the result messages, and one whose choices is no dict
NotifyInputs ==
    ResultInputs \o
    << [conversation_id |-> "conv-001", match_id |-> "R1M1", winner |-> "P01",
        choices |-> NonDictChoices, opponent_id |-> "P02"] >>

\* what StrategyEngine.choose_parity does for a call: returns a string, raises
\* asyncio.TimeoutError, raises another exception
EngineOutcomes ==
    {Returned(c) : c \in ChoiceStrings}
      \cup {Raised("TimeoutError"), Raised("RuntimeError")}

\* the result of a handler call with the objects as the call left them
Handled(p, b, res) == [ps |-> p, builder |-> b, res |-> res]

\* mutant of HandleGameInvitation: the builder's token is not taken from the state
HandleGameInvitationUnsynced(p, b, params) ==
    Handled(p, b,
            BuildGameJoinAck(b, Get(params, "conversation_id", "unknown"),
                             Get(params, "match_id", "unknown"), TRUE))

\* mutant of HandleGameInvitation: the invitation marks the player registered
HandleGameInvitationRegisters(p, b, params) ==
    LET conversation_id == Get(params, "conversation_id", "unknown")
        match_id == Get(params, "match_id", "unknown")
        synced == IF Truthy(p.auth_token) /\ ~Truthy(b.auth_token)
                  THEN BuilderWithToken(b, p.auth_token)
                  ELSE b
    IN  Handled([p EXCEPT !.registered = TRUE], synced,
                BuildGameJoinAck(synced, conversation_id, match_id, TRUE))

\* ToolHandlers.handle_game_invitation
HandleGameInvitation(p, b, params) ==
    LET conversation_id == Get(params, "conversation_id", "unknown")
        match_id == Get(params, "match_id", "unknown")
        synced == IF Truthy(p.auth_token) /\ ~Truthy(b.auth_token)
                  THEN BuilderWithToken(b, p.auth_token)
                  ELSE b
    IN  Handled(p, synced, BuildGameJoinAck(synced, conversation_id, match_id, TRUE))

\* mutant of HandlerChooseParity: the emergency value is not the fixed "even"
HandlerChooseParityOtherFallback(p, b, params, outcome) ==
    LET conversation_id == Get(params, "conversation_id", "unknown")
        match_id == Get(params, "match_id", "unknown")
    IN  IF outcome.kind = "ok"
        THEN LET parity_choice == IF outcome.value \notin {"even", "odd"}
                                  THEN "odd"
                                  ELSE outcome.value
             IN  Handled(p, b, BuildChooseParityResponse(b, conversation_id, match_id,
                                                         parity_choice))
        ELSE IF outcome.value = "TimeoutError"
        THEN Handled(p, b, BuildChooseParityResponse(b, conversation_id, match_id, "odd"))
        ELSE Handled(p, b, Err(outcome.value))

\* ToolHandlers.choose_parity, the engine behaving as `outcome`
HandlerChooseParity(p, b, params, outcome) ==
    LET conversation_id == Get(params, "conversation_id", "unknown")
        match_id == Get(params, "match_id", "unknown")
    IN  IF outcome.kind = "ok"
        THEN LET parity_choice == IF outcome.value \notin {"even", "odd"}
                                  THEN "even"
                                  ELSE outcome.value
             IN  Handled(p, b, BuildChooseParityResponse(b, conversation_id, match_id,
                                                         parity_choice))
        ELSE IF outcome.value = "TimeoutError"
        THEN Handled(p, b, BuildChooseParityResponse(b, conversation_id, match_id, "even"))
        ELSE Handled(p, b, Err(outcome.value))

\* PlayerState.update_from_result on params of any content: choices.get fails on a
\* value that is no dict, before anything is changed
UpdateFromResultOutcome(p, msg) ==
    IF ~IsDict(Get(msg, "choices", EmptyDict))
    THEN [ps |-> p, res |-> Raised("AttributeError")]
    ELSE [ps |-> ApplyResult(p, msg), res |-> NoResult]

\* mutant of NotifyMatchResult: opponent_id is read with params["opponent_id"]
NotifyMatchResultStrict(p, b, params) ==
    IF "opponent_id" \notin DOMAIN params
    THEN Handled(p, b, Err("KeyError"))
    ELSE LET u == UpdateFromResultOutcome(p, params)
         IN  IF u.res.kind = "raise"
             THEN Handled(u.ps, b, Err(u.res.value))
             ELSE Handled(u.ps, b,
                          BuildResultAcknowledgment(b,
                              Get(params, "conversation_id", "unknown"),
                              Get(params, "match_id", "unknown"), "acknowledged"))

\* ToolHandlers.notify_match_result: the state is updated, then the
\* acknowledgment is built
NotifyMatchResult(p, b, params) ==
    LET u == UpdateFromResultOutcome(p, params)
    IN  IF u.res.kind = "raise"
        THEN Handled(u.ps, b, Err(u.res.value))
        ELSE Handled(u.ps, b,
                     BuildResultAcknowledgment(b,
                         Get(params, "conversation_id", "unknown"),
                         Get(params, "match_id", "unknown"), "acknowledged"))

-----------------------------------------------------------------------------
(* State machine of the handlers *)

HandlerOp(name, params, outcome) == [name |-> name, params |-> params, outcome |-> outcome]

HandlerInit ==
    /\ hop = HandlerOp("<none>", EmptyDict, NoResult)
    /\ hres = NotBuilt

\* ToolHandlers.update_auth_token
HandlerUpdateAuthToken ==
    /\ \E t \in TokenInputs :
          /\ ps' = SetAuthToken(ps, t)
          /\ builder' = BuilderWithToken(builder, t)
    /\ hop' = HandlerOp("update_auth_token", EmptyDict, NoResult)
    /\ hres' = NotBuilt
    /\ UNCHANGED <<built, lastSet, bop, applied, sop, snapshot, snapShared, qres,
                   engineVars, clockVars, serverVars, taskVars>>

\* the state alone is given a token (PlayerState.set_auth_token on handlers.state)
StateAloneRegistered ==
    /\ \E t \in TokenInputs : ps' = SetAuthToken(ps, t)
    /\ hop' = HandlerOp("state.set_auth_token", EmptyDict, NoResult)
    /\ hres' = NotBuilt
    /\ UNCHANGED <<builderVars, applied, sop, snapshot, snapShared, qres,
                   engineVars, clockVars, serverVars, taskVars>>

CallHandleGameInvitation ==
    /\ \E i \in 1..Len(InvitationInputs) :
          LET h == HandleGameInvitation(ps, builder, InvitationInputs[i])
          IN  /\ builder' = h.builder
              /\ hres' = h.res
              /\ hop' = HandlerOp("handle_game_invitation", InvitationInputs[i], NoResult)
    /\ UNCHANGED <<built, lastSet, bop, stateVars,
                   engineVars, clockVars, serverVars, taskVars>>

CallChooseParity ==
    /\ \E i \in 1..Len(ParityCallInputs), outcome \in EngineOutcomes :
          /\ hres' = HandlerChooseParity(ps, builder, ParityCallInputs[i], outcome).res
          /\ hop' = HandlerOp("choose_parity", ParityCallInputs[i], outcome)
    /\ UNCHANGED <<builderVars, stateVars, engineVars, clockVars, serverVars, taskVars>>

CallNotifyMatchResult ==
    /\ Len(applied) < MaxNotifies
    /\ \E i \in 1..Len(NotifyInputs) :
          LET h == NotifyMatchResult(ps, builder, NotifyInputs[i])
          IN  /\ ps' = h.ps
              /\ applied' = IF h.ps # ps THEN Append(applied, NotifyInputs[i]) ELSE applied
              /\ hres' = h.res
              /\ hop' = HandlerOp("notify_match_result", NotifyInputs[i], NoResult)
    /\ UNCHANGED <<builderVars, sop, snapshot, snapShared, qres,
                   engineVars, clockVars, serverVars, taskVars>>

HandlerNext ==
    \/ HandlerUpdateAuthToken
    \/ StateAloneRegistered
    \/ CallHandleGameInvitation
    \/ CallChooseParity
    \/ CallNotifyMatchResult

-----------------------------------------------------------------------------
(***************************************************************************)
(* Properties of the handlers (HandlerSpec)                                *)
(***************************************************************************)

\* C23: update_from_result does not fail because opponent_id is absent: it
\* records the opponent "unknown", still appends the record and updates the
\* counters, and notify_match_result (token set) then returns an
\* acknowledgment with status "acknowledged".
C23_MissingOpponentTolerated ==
    [][(/\ hop'.name = "notify_match_result"
        /\ "opponent_id" \notin DOMAIN hop'.params)
       => /\ Len(ps'.match_history) = Len(ps.match_history) + 1
          /\ ps'.match_history[Len(ps'.match_history)].opponent_id = "unknown"
          /\ ps'.stats.total_matches = ps.stats.total_matches + 1
          /\ ps'.stats.wins + ps'.stats.draws + ps'.stats.losses
                = ps.stats.wins + ps.stats.draws + ps.stats.losses + 1
          /\ Truthy(builder.auth_token) =>
                /\ hres'.kind = "ok"
                /\ hres'.msg.message_type = "RESULT_ACKNOWLEDGMENT"
                /\ hres'.msg.status = "acknowledged"]_vars

\* a result without opponent_id acknowledged after one with it
C23_Witness ==
    /\ hop.name = "notify_match_result"
    /\ DOMAIN hop.params = {"match_id", "winner"}
    /\ Len(ps.match_history) = 2
    /\ ps.match_history[2].opponent_id = "unknown"
    /\ ps.match_history[1].opponent_id = "P02"
    /\ hres.kind = "ok"
    /\ hres.msg.status = "acknowledged"

\* C24: given an auth token is set, handle_game_invitation returns a
\* GAME_JOIN_ACK with accept = true for every invitation, whatever the params
\* contain (an empty params map, a missing match_id); no path returns accept = false.
C24_InvitationAlwaysAccepted ==
    /\ (/\ hop.name = "handle_game_invitation"
        /\ Truthy(ps.auth_token) \/ Truthy(builder.auth_token))
       => /\ hres.kind = "ok"
          /\ hres.msg.message_type = "GAME_JOIN_ACK"
          /\ hres.msg.accept = TRUE
    /\ hres.kind = "ok" /\ hres.msg.message_type = "GAME_JOIN_ACK" =>
          hres.msg.accept = TRUE

\* an invitation with empty params accepted with the token only the state had
C24_Witness ==
    /\ hop.name = "handle_game_invitation"
    /\ hop.params = EmptyDict
    /\ ps.auth_token = "tok-A"
    /\ builder.auth_token = "tok-A"
    /\ lastSet = NoToken
    /\ hres.kind = "ok"
    /\ hres.msg.accept = TRUE
    /\ hres.msg.match_id = "unknown"

\* C25 as stated: given an auth token is set, ToolHandlers.choose_parity returns a
\* CHOOSE_PARITY_RESPONSE whose parity_choice is "even" or "odd" even when
\* StrategyEngine.choose_parity raises any exception (a timeout or any other
\* error) or returns a value outside the set.
C25_ChoiceDespiteEngineFailure ==
    hop.name = "choose_parity" /\ Truthy(builder.auth_token) =>
        /\ hres.kind = "ok"
        /\ hres.msg.message_type = "CHOOSE_PARITY_RESPONSE"
        /\ hres.msg.parity_choice \in {"even", "odd"}

\* the engine returned something that is no choice, or its wait timed out
EmergencyCase(outcome) ==
    \/ outcome.kind = "ok" /\ outcome.value \notin {"even", "odd"}
    \/ outcome = Raised("TimeoutError")

\* C33: the dispatch-level emergency substitution is the fixed value "even":
\* when the engine returns a value outside {even, odd}, or raises a timeout
\* error, ToolHandlers.choose_parity builds its response with
\* parity_choice = "even" rather than a fresh random draw.
C33_EmergencyChoiceIsEven ==
    hop.name = "choose_parity" /\ EmergencyCase(hop.outcome) =>
        /\ Truthy(builder.auth_token) => hres.kind = "ok"
        /\ hres.kind = "ok" =>
              /\ hres.msg.message_type = "CHOOSE_PARITY_RESPONSE"
              /\ hres.msg.parity_choice = "even"

\* the engine's wait timed out and the response carries "even"
C33_Witness ==
    /\ hop.name = "choose_parity"
    /\ hop.outcome = Raised("TimeoutError")
    /\ hres.kind = "ok"
    /\ hres.msg.parity_choice = "even"

\* the last call was one of the three tools
ToolCalled == hop.name \in {"handle_game_invitation", "choose_parity", "notify_match_result"}

\* C35 as stated: whenever notify_match_result ends in an error instead of an
\* acknowledgment (for example because no auth token is set), PlayerState stats
\* and match_history are the same as before the call, so a failed notification
\* followed by a retry is counted once.
C35_FailedNotifyLeavesState ==
    [][(hop'.name = "notify_match_result" /\ hres'.kind = "raise")
       => /\ ps'.stats = ps.stats
          /\ ps'.match_history = ps.match_history]_vars

\* C36 as stated: in every response returned by handle_game_invitation,
\* choose_parity or notify_match_result, the auth_token field equals
\* PlayerState.auth_token at the time of the call, after any sequence of
\* PlayerState.set_auth_token and ToolHandlers.update_auth_token calls.
C36_ResponseTokenIsStateToken ==
    ToolCalled /\ hres.kind = "ok" => hres.msg.auth_token = ps.auth_token

\* the call's inputs are such that only the token decides its success: the
\* engine returned or timed out, and a result's choices is a dict
OrdinaryCall ==
    /\ hop.name = "choose_parity" =>
          hop.outcome.kind = "ok" \/ hop.outcome = Raised("TimeoutError")
    /\ hop.name = "notify_match_result" => IsDict(Get(hop.params, "choices", EmptyDict))

\* C37 as stated: whenever PlayerState holds a token at the time of a call
\* (however it was set), each of the three handlers succeeds in building its
\* authenticated response; choose_parity and notify_match_result succeed even
\* if no handle_game_invitation call preceded them.
C37_StateTokenSuffices ==
    ToolCalled /\ OrdinaryCall /\ Truthy(ps.auth_token) => hres.kind = "ok"

-----------------------------------------------------------------------------
(***************************************************************************)
(* Part 6: mcp_endpoint (agents/player/server.py)                          *)
(***************************************************************************)

\* JSONRPCError
METHOD_NOT_FOUND == -32601

INVALID_PARAMS == -32602

INTERNAL_ERROR == -32603

\* isinstance(e, ValueError) for the exceptions a handler raises
IsValueError(err) == err \in {"ValueError:auth_token", "ValueError:parity_choice"}

\* MCPRequest.id
RequestIds == {1, 7}

\* MCPRequest.method: the three tools, and names that are none of them
MethodInputs ==
    {"handle_game_invitation", "choose_parity", "notify_match_result",
     "get_stats", "Choose_Parity"}

\* the params sent with a method (for a result: complete, without the optional
\* fields, with a choices value that is no dict)
ParamsFor(method) ==
    CASE method = "handle_game_invitation" -> InvitationInputs
      [] method = "choose_parity" -> ParityCallInputs
      [] method = "notify_match_result" ->
            << NotifyInputs[1], NotifyInputs[4], NotifyInputs[Len(NotifyInputs)] >>
      [] OTHER -> << EmptyDict >>

\* the engine is called by choose_parity only
OutcomesFor(method) == IF method = "choose_parity" THEN EngineOutcomes ELSE {NoResult}

McpRequest(method, params, id) == [method |-> method, params |-> params, id |-> id]

NoError == [code |-> 0, kind |-> "none"]

\* mutant of ResultResponse: id is left at the default of MCPResponse
ResultResponseDefaultId(result, id) == [result |-> result, error |-> NoError, id |-> 1]

\* MCPResponse(result=..., id=...) and MCPResponse(error={code, message}, id=...)
ResultResponse(result, id) == [result |-> result, error |-> NoError, id |-> id]

ErrorResponse(code, kind, id) ==
    [result |-> NoMessage, error |-> [code |-> code, kind |-> kind], id |-> id]

NoResponse == [result |-> NoMessage, error |-> NoError, id |-> 0]

\* the handler the method is routed to, or no handler
Route(p, b, req, outcome) ==
    CASE req.method = "handle_game_invitation" -> HandleGameInvitation(p, b, req.params)
      [] req.method = "choose_parity" -> HandlerChooseParity(p, b, req.params, outcome)
      [] req.method = "notify_match_result" -> NotifyMatchResult(p, b, req.params)
      [] OTHER -> Handled(p, b, NotBuilt)

\* mutant of ErrorFor: `except Exception` comes first and takes every exception
ErrorForAnyException(err, id) == ErrorResponse(INTERNAL_ERROR, "Internal error", id)

\* the two except clauses of mcp_endpoint: ValueError, then Exception
ErrorFor(err, id) ==
    IF IsValueError(err)
    THEN ErrorResponse(INVALID_PARAMS, "Invalid parameters", id)
    ELSE ErrorResponse(INTERNAL_ERROR, "Internal error", id)

\* mcp_endpoint
McpEndpoint(p, b, req, outcome) ==
    LET h == Route(p, b, req, outcome)
    IN  [ps |-> h.ps,
         builder |-> h.builder,
         handled |-> h.res,
         response |->
             IF h.res.kind = "none"
             THEN ErrorResponse(METHOD_NOT_FOUND, "Method not found", req.id)
             ELSE IF h.res.kind = "raise"
             THEN ErrorFor(h.res.err, req.id)
             ELSE ResultResponse(h.res.msg, req.id)]

-----------------------------------------------------------------------------
(* State machine of the server *)

ServerInit ==
    /\ request = McpRequest("<none>", EmptyDict, 0)
    /\ response = NoResponse

\* POST /mcp with a request body that is an MCPRequest
PostMcp ==
    /\ \E method \in MethodInputs, id \in RequestIds :
          \E i \in 1..Len(ParamsFor(method)), outcome \in OutcomesFor(method) :
             LET req == McpRequest(method, ParamsFor(method)[i], id)
                 r == McpEndpoint(ps, builder, req, outcome)
             IN  /\ method = "notify_match_result" => Len(applied) < MaxNotifies
                 /\ request' = req
                 /\ response' = r.response
                 /\ ps' = r.ps
                 /\ builder' = r.builder
                 /\ applied' = IF r.ps # ps THEN Append(applied, req.params) ELSE applied
                 /\ hres' = r.handled
                 /\ hop' = HandlerOp(method, req.params, outcome)
    /\ UNCHANGED <<built, lastSet, bop, sop, snapshot, snapShared, qres,
                   engineVars, clockVars, taskVars>>

\* registration has completed: ToolHandlers.update_auth_token
ServerTokenUpdated ==
    /\ HandlerUpdateAuthToken
    /\ UNCHANGED serverVars

ServerNext ==
    \/ PostMcp
    \/ ServerTokenUpdated

\* POST /mcp, for one request id and as long as no result is recorded
PostMcpFirstResult ==
    /\ PostMcp
    /\ request'.id = 1
    /\ Len(applied') <= 1

\* the endpoint together with the read operations of the state it serves
FrameNext ==
    \/ PostMcpFirstResult
    \/ ServerTokenUpdated
    \/ GetStats
    \/ CallGetWinRate
    \/ CallGetMatchHistory
    \/ CallGetOpponentHistory

-----------------------------------------------------------------------------
(***************************************************************************)
(* Properties of the dispatch (ServerSpec)                                 *)
(***************************************************************************)

ToolNames == {"handle_game_invitation", "choose_parity", "notify_match_result"}

\* C26: the /mcp dispatch reports three error categories with three distinct
\* codes: an unrecognized method gives -32601, a ValueError from a handler
\* gives -32602, any other exception gives -32603; no exception raised in a
\* handler escapes mcp_endpoint, every request gets a response.
C26_ThreeErrorCodes ==
    request.method # "<none>" =>
        /\ response.id = request.id
        /\ request.method \notin ToolNames => response.error.code = -32601
        /\ (/\ request.method \in ToolNames
            /\ hres.kind = "raise"
            /\ hres.err \in {"ValueError:auth_token", "ValueError:parity_choice"})
           => response.error.code = -32602 /\ response.result = NoMessage
        /\ (/\ request.method \in ToolNames
            /\ hres.kind = "raise"
            /\ hres.err \notin {"ValueError:auth_token", "ValueError:parity_choice"})
           => response.error.code = -32603 /\ response.result = NoMessage
        /\ request.method \in ToolNames /\ hres.kind = "ok" =>
              response.error = NoError /\ response.result = hres.msg

\* a result whose choices is no dict answered with -32603 after a request
\* without token was answered with -32602
C26_Witness ==
    /\ request.method = "notify_match_result"
    /\ hres.kind = "raise"
    /\ hres.err = "AttributeError"
    /\ response.error.code = -32603
    /\ response.id = 7
    /\ Truthy(builder.auth_token)

\* C38: every response of mcp_endpoint carries the id of the request it answers
\* and exactly one of result and error: result for a handler that returned,
\* error for an unknown method or a handler that raised.
C38_OneOfResultAndError ==
    request.method # "<none>" /\ hop.name = request.method =>
        LET hasResult == response.result # NoMessage
            hasError == response.error # NoError
        IN  /\ response.id = request.id
            /\ hasResult # hasError
            /\ hasResult <=> (request.method \in ToolNames /\ hres.kind = "ok")
            /\ hasError <=> (request.method \notin ToolNames \/ hres.kind = "raise")

\* a choice returned under request id 7
C38_Witness ==
    /\ request.method = "choose_parity"
    /\ hop.name = "choose_parity"
    /\ request.id = 7
    /\ response.id = 7
    /\ response.error = NoError
    /\ response.result # NoMessage
    /\ response.result.message_type = "CHOOSE_PARITY_RESPONSE"

\* the fields of PlayerState the operations may change
StateFields(p) == <<p.stats, p.match_history, p.auth_token, p.registered>>

\* C32: PlayerState is mutated only by the result-notification and token-set
\* operations: handle_game_invitation, choose_parity, an unrecognized method
\* and the read operations (get_stats, get_win_rate, get_match_history,
\* get_opponent_history) leave stats, match_history, auth_token and registered
\* unchanged.
C32_OnlyResultAndTokenMutate ==
    [][StateFields(ps') # StateFields(ps)
       => /\ hop'.name \in {"notify_match_result", "update_auth_token"}
          /\ sop'.name = sop.name]_vars

\* an unknown method and a read of the opponent's matches, after a result was
\* recorded and a token set
C32_Witness ==
    /\ hop.name = "Choose_Parity"
    /\ response.error.code = METHOD_NOT_FOUND
    /\ sop.name = "get_opponent_history"
    /\ qres.kind = "ok"
    /\ Len(qres.value) = 1
    /\ Len(ps.match_history) = 1
    /\ ps.stats.total_matches = 1
    /\ ps.auth_token = "tok-A"

-----------------------------------------------------------------------------
(***************************************************************************)
(* Part 7: handler calls in flight on the server's event loop              *)
(*                                                                         *)
(* uvicorn runs the application on one event loop in one thread.  Every    *)
(* request is a task; a task keeps the loop until it awaits something that *)
(* suspends it or returns.  update_from_result and set_auth_token are      *)
(* taken statement by statement here.                                      *)
(***************************************************************************)

\* number of requests in flight together
MaxTasks == 3

NoTask == 0

\* the calls that arrive: results (complete; without optional fields) and tokens
CallInputs ==
    {[name |-> "notify_match_result", arg |-> 1],
     [name |-> "notify_match_result", arg |-> 4],
     [name |-> "update_auth_token", arg |-> 2],
     [name |-> "update_auth_token", arg |-> 3]}

TokenOf(k) == IF k = 2 THEN "tok-A" ELSE "tok-B"

\* mutant of SuspendsAt: an await between the counters and the append
SuspendsAtCounted(pc) == pc = "counted"

\* the positions at which notify_match_result / update_auth_token await: there is
\* no await in either, nor in update_from_result and set_auth_token
SuspendsAt(pc) == FALSE

\* the statements of update_from_result up to total_matches += 1
CountResultIn(p, msg) ==
    [p EXCEPT !.stats =
        BumpStats(p.stats, ClassifyOutcome(Get(msg, "winner", PyNone), p.player_id))]

\* the statements of update_from_result from the MatchResult(...) on
AppendRecordIn(p, msg) ==
    [p EXCEPT !.match_history =
        TrimHistory(
            Append(p.match_history,
                   MakeMatchResult(msg,
                                   ClassifyOutcome(Get(msg, "winner", PyNone), p.player_id),
                                   p.player_id)),
            p.max_history_entries)]

\* a call executed alone, from start to end
CallAlone(p, call) ==
    IF call.name = "notify_match_result"
    THEN ApplyResult(p, ResultInputs[call.arg])
    ELSE SetAuthToken(p, TokenOf(call.arg))

RECURSIVE InSequence(_, _)
\* the calls executed one after the other
InSequence(p, calls) ==
    IF calls = <<>> THEN p ELSE InSequence(CallAlone(p, Head(calls)), Tail(calls))

-----------------------------------------------------------------------------
(* State machine of the tasks *)

TaskInit ==
    /\ tasks = <<>>
    /\ running = NoTask
    /\ order = <<>>

\* after a statement at position pc the task keeps the loop unless it awaits there
LoopAfter(t, pc) == IF SuspendsAt(pc) THEN NoTask ELSE t

MayRun(t) == running = NoTask \/ running = t

\* a request arrives and its task is created
Submit ==
    /\ Len(tasks) < MaxTasks
    /\ \E call \in CallInputs : tasks' = Append(tasks, [call |-> call, pc |-> "pending"])
    /\ UNCHANGED <<running, order, engineVars, builderVars, stateVars, clockVars,
                   handlerVars, serverVars>>

\* update_from_result: the fields are read, the outcome counted
CountResult ==
    /\ \E t \in 1..Len(tasks) :
          /\ MayRun(t)
          /\ tasks[t].call.name = "notify_match_result"
          /\ tasks[t].pc = "pending"
          /\ ps' = CountResultIn(ps, ResultInputs[tasks[t].call.arg])
          /\ tasks' = [tasks EXCEPT ![t].pc = "counted"]
          /\ running' = LoopAfter(t, "counted")
    /\ UNCHANGED <<order, applied, sop, snapshot, snapShared, qres, engineVars,
                   builderVars, clockVars, handlerVars, serverVars>>

\* update_from_result: the record is appended and the history trimmed
AppendRecord ==
    /\ \E t \in 1..Len(tasks) :
          /\ MayRun(t)
          /\ tasks[t].pc = "counted"
          /\ ps' = AppendRecordIn(ps, ResultInputs[tasks[t].call.arg])
          /\ tasks' = [tasks EXCEPT ![t].pc = "appended"]
          /\ running' = LoopAfter(t, "appended")
    /\ UNCHANGED <<order, applied, sop, snapshot, snapShared, qres, engineVars,
                   builderVars, clockVars, handlerVars, serverVars>>

\* set_auth_token: self.auth_token = auth_token
AssignToken ==
    /\ \E t \in 1..Len(tasks) :
          /\ MayRun(t)
          /\ tasks[t].call.name = "update_auth_token"
          /\ tasks[t].pc = "pending"
          /\ ps' = [ps EXCEPT !.auth_token = TokenOf(tasks[t].call.arg)]
          /\ tasks' = [tasks EXCEPT ![t].pc = "assigned"]
          /\ running' = LoopAfter(t, "assigned")
    /\ UNCHANGED <<order, applied, sop, snapshot, snapShared, qres, engineVars,
                   builderVars, clockVars, handlerVars, serverVars>>

\* set_auth_token: self.registered = True
MarkRegistered ==
    /\ \E t \in 1..Len(tasks) :
          /\ MayRun(t)
          /\ tasks[t].pc = "assigned"
          /\ ps' = [ps EXCEPT !.registered = TRUE]
          /\ tasks' = [tasks EXCEPT ![t].pc = "appended"]
          /\ running' = LoopAfter(t, "appended")
    /\ UNCHANGED <<order, applied, sop, snapshot, snapShared, qres, engineVars,
                   builderVars, clockVars, handlerVars, serverVars>>

\* the call returns and its task ends
CallReturns ==
    /\ \E t \in 1..Len(tasks) :
          /\ MayRun(t)
          /\ tasks[t].pc = "appended"
          /\ tasks' = [tasks EXCEPT ![t].pc = "done"]
          /\ order' = Append(order, tasks[t].call)
          /\ running' = NoTask
    /\ UNCHANGED <<stateVars, engineVars, builderVars, clockVars, handlerVars,
                   serverVars>>

TaskNext ==
    \/ Submit
    \/ CountResult
    \/ AppendRecord
    \/ AssignToken
    \/ MarkRegistered
    \/ CallReturns

-----------------------------------------------------------------------------
(***************************************************************************)
(* Properties of the tasks (TaskSpec)                                      *)
(***************************************************************************)

\* a task has started a call and not finished it
InCall(t) == tasks[t].pc \in {"counted", "assigned", "appended"}

\* C27: when several notify_match_result / set_auth_token calls on the same
\* PlayerState are in flight, their updates do not interleave: counters and
\* history equal those of the calls executed in some sequential order, and no
\* other call can run in a state where the counters were updated but the
\* record was not yet appended.
C27_CallsDoNotInterleave ==
    /\ \A t, u \in 1..Len(tasks) : InCall(t) /\ InCall(u) => t = u
    /\ \A t \in 1..Len(tasks) :
          tasks[t].pc = "pending" /\ MayRun(t) =>
             /\ ps.stats.total_matches = Len(ps.match_history)
             /\ ps = InSequence(NewPlayerState(OwnPlayerId, DefaultMaxHistory), order)
    /\ (\A t \in 1..Len(tasks) : tasks[t].pc = "done") =>
          ps = InSequence(NewPlayerState(OwnPlayerId, DefaultMaxHistory), order)

\* three calls were in flight together and completed in another order than
\* they arrived
C27_Witness ==
    /\ Len(tasks) = 3
    /\ \A t \in 1..3 : tasks[t].pc = "done"
    /\ tasks[1].call.name = "notify_match_result"
    /\ tasks[2].call.name = "update_auth_token"
    /\ tasks[3].call.name = "notify_match_result"
    /\ order[1] = tasks[3].call
    /\ order[1] # tasks[1].call
    /\ ps.stats.total_matches = 2
    /\ ps.registered

-----------------------------------------------------------------------------
(***************************************************************************)
(* Part 8: the order in which the calls for a match arrive                 *)
(*                                                                         *)
(* The league sends invitation, choice call and result for a match in that *)
(* order; here they arrive in every order, and `order` is the log of the   *)
(* calls handled so far.                                                   *)
(***************************************************************************)

\* number of calls delivered
MaxDeliveries == 3

\* params of the three calls for match m
InvitationFor(m) ==
    [conversation_id |-> "conv-001", match_id |-> m, opponent_id |-> "P02",
     game_type |-> "even_odd", deadline |-> "<deadline>"]

ParityCallFor(m) ==
    [conversation_id |-> "conv-001", match_id |-> m, opponent_id |-> "P02",
     standings |-> EmptyDict, deadline |-> "<deadline>"]

ResultFor(m) ==
    [conversation_id |-> "conv-001", match_id |-> m, winner |-> "P01", drawn_number |-> 7,
     choices |-> ("P01" :> "odd" @@ "P02" :> "even"), opponent_id |-> "P02"]

\* an invitation for match m is in the log
Invited(log, m) ==
    \E i \in 1..Len(log) : log[i] = [name |-> "handle_game_invitation", arg |-> m]

\* mutant of HandleCall: a choice or a result for a match that was not invited
\* is refused
HandleCallOnceInvited(p, b, name, m, outcome, log) ==
    IF name # "handle_game_invitation" /\ ~Invited(log, m)
    THEN Handled(p, b, Err("KeyError"))
    ELSE CASE name = "handle_game_invitation" -> HandleGameInvitation(p, b, InvitationFor(m))
           [] name = "choose_parity" -> HandlerChooseParity(p, b, ParityCallFor(m), outcome)
           [] name = "notify_match_result" -> NotifyMatchResult(p, b, ResultFor(m))

\* the handler called for match m after the calls in `log`: no handler reads
\* what was handled before, ToolHandlers keeps no record per match
HandleCall(p, b, name, m, outcome, log) ==
    CASE name = "handle_game_invitation" -> HandleGameInvitation(p, b, InvitationFor(m))
      [] name = "choose_parity" -> HandlerChooseParity(p, b, ParityCallFor(m), outcome)
      [] name = "notify_match_result" -> NotifyMatchResult(p, b, ResultFor(m))

-----------------------------------------------------------------------------
(* State machine of the deliveries *)

Delivered(name, m, params, outcome) ==
    LET h == HandleCall(ps, builder, name, m, outcome, order)
    IN  /\ ps' = h.ps
        /\ builder' = h.builder
        /\ hres' = h.res
        /\ hop' = HandlerOp(name, params, outcome)
        /\ order' = Append(order, [name |-> name, arg |-> m])
        /\ applied' = IF h.ps # ps THEN Append(applied, params) ELSE applied

DeliverInvitation ==
    /\ Len(order) < MaxDeliveries
    /\ \E m \in MatchIds :
          Delivered("handle_game_invitation", m, InvitationFor(m), NoResult)
    /\ UNCHANGED <<built, lastSet, bop, sop, snapshot, snapShared, qres, tasks, running,
                   engineVars, clockVars, serverVars>>

DeliverParityCall ==
    /\ Len(order) < MaxDeliveries
    /\ \E m \in MatchIds, outcome \in EngineOutcomes :
          Delivered("choose_parity", m, ParityCallFor(m), outcome)
    /\ UNCHANGED <<built, lastSet, bop, sop, snapshot, snapShared, qres, tasks, running,
                   engineVars, clockVars, serverVars>>

DeliverResult ==
    /\ Len(order) < MaxDeliveries
    /\ \E m \in MatchIds :
          Delivered("notify_match_result", m, ResultFor(m), NoResult)
    /\ UNCHANGED <<built, lastSet, bop, sop, snapshot, snapShared, qres, tasks, running,
                   engineVars, clockVars, serverVars>>

OrderNext ==
    \/ HandlerUpdateAuthToken
    \/ DeliverInvitation
    \/ DeliverParityCall
    \/ DeliverResult

-----------------------------------------------------------------------------
(***************************************************************************)
(* Properties of the deliveries (OrderSpec)                                *)
(***************************************************************************)

\* the message type each tool answers with
AnswerType(name) ==
    CASE name = "handle_game_invitation" -> "GAME_JOIN_ACK"
      [] name = "choose_parity" -> "CHOOSE_PARITY_RESPONSE"
      [] name = "notify_match_result" -> "RESULT_ACKNOWLEDGMENT"

\* C31: the handlers do not depend on per-match ordering: with a token
\* installed, handle_game_invitation, choose_parity and notify_match_result
\* calls for any match ids arriving in any order (result before invitation,
\* choice without invitation, repeated calls) each return their valid response.
C31_AnyOrderAnswered ==
    (/\ ToolCalled
     /\ order # <<>>
     /\ OrdinaryCall
     /\ Truthy(builder.auth_token))
    => /\ hres.kind = "ok"
       /\ hres.msg.message_type = AnswerType(hop.name)
       /\ hres.msg.match_id = order[Len(order)].arg
       /\ hop.name = "handle_game_invitation" => hres.msg.accept = TRUE
       /\ hop.name = "choose_parity" => hres.msg.parity_choice \in {"even", "odd"}
       /\ hop.name = "notify_match_result" => hres.msg.status = "acknowledged"

\* the three calls of one match arrived in reverse: result, choice, invitation
C31_Witness ==
    /\ order = << [name |-> "notify_match_result", arg |-> "R1M1"],
                  [name |-> "choose_parity", arg |-> "R1M1"],
                  [name |-> "handle_game_invitation", arg |-> "R1M1"] >>
    /\ hop.name = "handle_game_invitation"
    /\ hres.kind = "ok"
    /\ hres.msg.message_type = "GAME_JOIN_ACK"
    /\ hres.msg.match_id = "R1M1"
    /\ ps.stats.total_matches = 1

-----------------------------------------------------------------------------
(***************************************************************************)
(* Specifications: each part runs from its constructor while the others    *)
(* stay as constructed.                                                    *)
(***************************************************************************)

\* the parts after the third, as constructed
ServiceInit == ClockInit /\ HandlerInit /\ ServerInit /\ TaskInit

EngineSpecInit ==
    EngineInit /\ BuilderInit /\ StateInitWith(DefaultMaxHistory) /\ ServiceInit

\* the event loop runs its timers: the wait's clock advances and the timeout
\* callback of asyncio.wait_for is called when due
EngineSpec ==
    EngineSpecInit /\ [][EngineNext]_vars /\ WF_vars(Tick) /\ WF_vars(TimeoutFires)

BuilderSpecInit ==
    EngineInit /\ BuilderInit /\ StateInitWith(DefaultMaxHistory) /\ ServiceInit

BuilderSpec == BuilderSpecInit /\ [][BuilderNext]_vars

StateSpecInit == EngineInit /\ BuilderInit /\ StateInit /\ ServiceInit

StateSpec == StateSpecInit /\ [][StateNext]_vars

QuerySpecInit == EngineInit /\ BuilderInit /\ StateInit /\ ServiceInit

QuerySpec == QuerySpecInit /\ [][QueryNext]_vars

ClockSpecInit ==
    EngineInit /\ BuilderInit /\ StateInitWith(DefaultMaxHistory) /\ ServiceInit

ClockSpec == ClockSpecInit /\ [][ClockNext]_vars

HandlerSpecInit ==
    EngineInit /\ BuilderInit /\ StateInitWith(DefaultMaxHistory) /\ ServiceInit

HandlerSpec == HandlerSpecInit /\ [][HandlerNext]_vars

ServerSpecInit ==
    EngineInit /\ BuilderInit /\ StateInitWith(DefaultMaxHistory) /\ ServiceInit

ServerSpec == ServerSpecInit /\ [][ServerNext]_vars

DeadlineSpecInit ==
    EngineInit /\ BuilderInit /\ StateInitWith(DefaultMaxHistory) /\ ServiceInit

DeadlineSpec == DeadlineSpecInit /\ [][DeadlineNext]_vars

FrameSpecInit ==
    EngineInit /\ BuilderInit /\ StateInitWith(DefaultMaxHistory) /\ ServiceInit

FrameSpec == FrameSpecInit /\ [][FrameNext]_vars

OrderSpecInit ==
    EngineInit /\ BuilderInit /\ StateInitWith(DefaultMaxHistory) /\ ServiceInit

OrderSpec == OrderSpecInit /\ [][OrderNext]_vars

TaskSpecInit ==
    EngineInit /\ BuilderInit /\ StateInitWith(DefaultMaxHistory) /\ ServiceInit

TaskSpec == TaskSpecInit /\ [][TaskNext]_vars

====
